---- MODULE Spec2Model ----
(***************************************************************************)
(* A model of the routine engine of executable-memory (em-core):           *)
(* run_routine / resume_run / _execute_steps / _run_step, together with    *)
(* the value renderer, the safe evaluator, the tool registry, the state    *)
(* store and the prompt-answer validation they call.                       *)
(* The state stores, the tool registry, the renderer and evaluator and the *)
(* trace compiler are also exercised on their own, each in a specification *)
(* of its own (SpecStore, SpecCrash, SpecShare, SpecTools, SpecRender,     *)
(* SpecCompile, SpecDispatch); SpecCompileRun runs what the compiler       *)
(* returned, SpecCli drives the engine as the run command does, SpecRace   *)
(* interleaves two resume calls, and SpecFair is Spec with the fairness of *)
(* the interpreter loop.                                                   *)
(***************************************************************************)
EXTENDS Naturals, Integers, Sequences, FiniteSets, TLC

(***************************************************************************)
(* Bounds of the model.                                                    *)
(***************************************************************************)
\* longest routine (number of steps) that is explored
MaxSteps == 2
\* longest list object that is explored
MaxItems == 2
\* longest trace (number of events) that is compiled
MaxEvents == 2

(***************************************************************************)
(* Values.  A Value is an opaque JSON-like value; it is modelled as a      *)
(* record of its Python type and its Python str() text, so that            *)
(* stringification (template interpolation) and truthiness are computed    *)
(* and not assumed.                                                        *)
(***************************************************************************)
Val(t, s) == [t |-> t, s |-> s]
PyNone == Val("null", "None")
PyTrue == Val("bool", "True")
PyFalse == Val("bool", "False")
PyInt(s) == Val("int", s)
PyFloat(s) == Val("float", s)
PyStr(s) == Val("str", s)
PyDict(s) == Val("dict", s)
\* the marker of a key that is not in a mapping (never a Value itself)
Absent == Val("absent", "")

\* a guard test written `is not None` instead of truthiness
Truthy_NotNone(v) == v.t # "null"

\* Python truthiness, as used by `if not condition`, `if not result`, `or`
Truthy(v) ==
    CASE v.t = "null" -> FALSE
      [] v.t = "bool" -> v.s = "True"
      [] v.t = "int" -> v.s # "0"
      [] v.t = "float" -> v.s # "0.0"
      [] v.t = "str" -> v.s # ""
      [] v.t = "dict" -> v.s # "{}"
      [] v.t = "list" -> v.s # "[]"
      [] v.t = "undefined" -> FALSE
      [] OTHER -> TRUE

\* str(v): what interpolation writes for a value
Str(v) == PyStr(v.s)

\* the number a bool / int / float compares as under Python ==
NumKey(v) ==
    CASE v.t = "bool" -> (IF v.s = "True" THEN "1" ELSE "0")
      [] v.s = "0.0" -> "0"
      [] v.s = "2.0" -> "2"
      [] v.s = "5.0" -> "5"
      [] OTHER -> v.s
IsNum(v) == v.t \in {"bool", "int", "float"}
\* operator.eq on two Values
PyEq(a, b) == IF IsNum(a) /\ IsNum(b) THEN NumKey(a) = NumKey(b) ELSE a = b

(***************************************************************************)
(* The execution context: a flat mapping from names to Values.             *)
(***************************************************************************)
Keys == {"flag", "r", "ans", "_prompt_answers"}
EmptyCtx == [k \in Keys |-> Absent]
Has(c, k) == k \in Keys /\ c[k] # Absent
Bind(c, k, v) == [c EXCEPT ![k] = v]

\* exceptions: class name and message
Exc(t, m) == [type |-> t, msg |-> m]
NoExc == Exc("", "")
\* the result of a call that may raise
Ok(v) == [ok |-> TRUE, val |-> v, exc |-> NoExc]
Err(t, m) == [ok |-> FALSE, val |-> Absent, exc |-> Exc(t, m)]

(***************************************************************************)
(* Templates (templating.py).  The strings of a routine document:          *)
(*   Plain(v)        a non-string leaf, or a string without {{ }}          *)
(*   Sole(n)         "{{ n }}"                                             *)
(*   Interp(p, n)    p followed by "{{ n }}"                               *)
(*   OrElse(n, d)    "{{ n or 'd' }}"                                      *)
(***************************************************************************)
Tpl(k, v, name, text) == [k |-> k, v |-> v, name |-> name, text |-> text]
Plain(v) == Tpl("plain", v, "", "")
Sole(n) == Tpl("sole", Absent, n, "")
Interp(p, n) == Tpl("interp", Absent, n, p)
OrElse(n, d) == Tpl("or", Absent, n, d)
NoTpl == Plain(PyNone)

\* names Jinja2 resolves without the context: the udf proxy passed by
\* render_value and the environment's default globals
JinjaGlobals == {"udf", "range", "dict", "lipsum", "cycler", "joiner", "namespace"}

\* the renderer with Jinja2's default, lenient Undefined: a missing name is
\* an empty, falsy value instead of an error
JinjaName_Lenient(n, c) ==
    IF Has(c, n) THEN Ok(c[n]) ELSE Ok(Val("undefined", ""))

\* tmpl.render(udf=..., **context) of "{{ n }}" under StrictUndefined
JinjaName(n, c) ==
    IF Has(c, n) THEN Ok(c[n])
    ELSE IF n \in JinjaGlobals THEN Ok(Val("object", "<" \o n \o ">"))
    ELSE Err("UndefinedError", "'" \o n \o "' is undefined")

\* a renderer without the fast path: "{{ n }}" is rendered by Jinja2 like
\* any other template, and the result is a string
render_value_Stringifies(t, c) ==
    CASE t.k = "plain" -> Ok(t.v)
      [] t.k = "sole" ->
            LET j == JinjaName(t.name, c)
            IN IF j.ok THEN Ok(Str(j.val)) ELSE j
      [] t.k = "interp" ->
            LET j == JinjaName(t.name, c)
            IN IF j.ok THEN Ok(PyStr(t.text \o j.val.s)) ELSE j
      [] t.k = "or" ->
            LET j == JinjaName(t.name, c)
            IN IF ~j.ok THEN j
               ELSE IF Truthy(j.val) THEN Ok(Str(j.val))
               ELSE Ok(PyStr(t.text))

\* render_value on one leaf
render_value(t, c) ==
    CASE t.k = "plain" -> Ok(t.v)
      [] t.k = "sole" ->
            IF Has(c, t.name) THEN Ok(c[t.name])
            ELSE LET j == JinjaName(t.name, c)
                 IN IF j.ok THEN Ok(Str(j.val)) ELSE j
      [] t.k = "interp" ->
            LET j == JinjaName(t.name, c)
            IN IF j.ok THEN Ok(PyStr(t.text \o j.val.s)) ELSE j
      [] t.k = "or" ->
            \* `n or 'd'`: the truth test of an undefined n raises
            LET j == JinjaName(t.name, c)
            IN IF ~j.ok THEN j
               ELSE IF Truthy(j.val) THEN Ok(Str(j.val))
               ELSE Ok(PyStr(t.text))

\* render_value on an args mapping: every entry is rendered; the first
\* failure propagates
RenderArgs(args, c) ==
    LET bad == {p \in DOMAIN args : ~render_value(args[p], c).ok}
    IN IF bad # {}
       THEN [ok |-> FALSE, val |-> <<>>,
             exc |-> render_value(args[CHOOSE p \in bad : TRUE], c).exc]
       ELSE [ok |-> TRUE, val |-> [p \in DOMAIN args |-> render_value(args[p], c).val],
             exc |-> NoExc]

(***************************************************************************)
(* Expressions (eval.py), for `when` and `assert check`:                   *)
(*   Name(n)       n                                                       *)
(*   Const(v)      a literal                                               *)
(*   EqNC(n, v)    n == <literal>                                          *)
(*   EqCC(v, w)    <literal> == <literal>                                  *)
(***************************************************************************)
Expr(k, name, v, w) == [k |-> k, name |-> name, v |-> v, w |-> w]
NoExpr == Expr("none", "", Absent, Absent)
Name(n) == Expr("name", n, Absent, Absent)
Const(v) == Expr("const", "", v, Absent)
EqNC(n, v) == Expr("eq", n, v, Absent)
EqCC(v, w) == Expr("eqc", "", v, w)

\* the public functions of the package's udf.py
UdfFunctions == {"divide"}

\* _build_eval_context: the context plus the udf functions as names
EvalName(n, c) ==
    IF n \in UdfFunctions THEN Ok(Val("function", n))
    ELSE IF Has(c, n) THEN Ok(c[n])
    ELSE Err("NameError", "Undefined variable: " \o n)

\* safe_eval over the evaluation context
safe_eval(e, c) ==
    CASE e.k = "name" -> EvalName(e.name, c)
      [] e.k = "const" -> Ok(e.v)
      [] e.k = "eq" ->
            LET l == EvalName(e.name, c)
            IN IF ~l.ok THEN l
               ELSE Ok(IF PyEq(l.val, e.v) THEN PyTrue ELSE PyFalse)
      [] e.k = "eqc" -> Ok(IF PyEq(e.v, e.w) THEN PyTrue ELSE PyFalse)
      [] OTHER -> Err("ValueError", "Unsupported expression node")

(***************************************************************************)
(* Routine documents (models/routine.py).  None is modelled as "" for the  *)
(* optional strings, NoExpr for an absent expression and <<>> for an       *)
(* absent prompt definition and absent args.                               *)
(***************************************************************************)
PromptField(n, t, req, opts) == [name |-> n, type |-> t, required |-> req, options |-> opts]
NoPrompt == <<>>
NoArgs == <<>>

Step(type, tool, function, args, save_as, check, message, prompt, value, when) ==
    [id |-> "", type |-> type, tool |-> tool, function |-> function, args |-> args,
     save_as |-> save_as, check |-> check, message |-> message, prompt |-> prompt,
     value |-> value, when |-> when]

ToolCall(tool, args, save_as, when) ==
    Step("tool.call", tool, "", args, save_as, NoExpr, "", NoPrompt, NoTpl, when)
UdfCall(function, args, save_as, when) ==
    Step("udf.call", "", function, args, save_as, NoExpr, "", NoPrompt, NoTpl, when)
AssertStep(check, message, when) ==
    Step("assert", "", "", NoArgs, "", check, message, NoPrompt, NoTpl, when)
PromptUser(prompt, save_as, when) ==
    Step("prompt.user", "", "", NoArgs, save_as, NoExpr, "", prompt, NoTpl, when)
ReturnStep(value, when) ==
    Step("return", "", "", NoArgs, "", NoExpr, "", NoPrompt, value, when)

\* step ids by position: the routine invariant of unique ids
StepId(i) == <<"s1", "s2", "s3", "s4", "s5", "s6">>[i + 1]

ConfirmPrompt == <<PromptField("ok", "confirm", TRUE, <<>>)>>
GoodArgs == [a |-> Plain(PyInt("10")), b |-> Plain(PyInt("2"))]
BadArgs == [a |-> Plain(PyInt("10")), b |-> Plain(PyInt("0"))]

\* the steps routines are built from
StepPool ==
    { ToolCall("fetch", [url |-> Plain(PyStr("http://x"))], "r", Name("flag")),
      ReturnStep(OrElse("r", "none"), NoExpr),
      UdfCall("divide", BadArgs, "r", NoExpr),
      PromptUser(ConfirmPrompt, "ans", NoExpr),
      PromptUser(ConfirmPrompt, "", Name("flag")),
      ReturnStep(Sole("r"), Name("flag")),
      ReturnStep(Sole("ans"), NoExpr),
      AssertStep(EqNC("r", PyStr("data")), "r must be data", NoExpr),
      UdfCall("divide", GoodArgs, "", NoExpr),
      ReturnStep(Plain(PyStr("done")), NoExpr),
      AssertStep(Name("flag"), "", NoExpr) }

RoutineOf(bodies) == [j \in 1..Len(bodies) |-> [bodies[j] EXCEPT !.id = StepId(j - 1)]]
Routines == {RoutineOf(b) : b \in UNION {[1..n -> StepPool] : n \in 1..MaxSteps}}

\* the routine of scenario S6
RoutineS6 ==
    RoutineOf(<<ToolCall("fetch", [url |-> Plain(PyStr("http://x"))], "r", Name("flag")),
                ReturnStep(OrElse("r", "none"), NoExpr)>>)

(***************************************************************************)
(* Callables: the registered tools and the user functions.                 *)
(***************************************************************************)
ToolNames == {"fetch"}

\* fetch(url)
FetchFn(args) ==
    IF DOMAIN args # {"url"} THEN Err("TypeError", "fetch() got unexpected arguments")
    ELSE IF args["url"] = PyStr("http://x") THEN Ok(PyStr("data"))
    ELSE Err("ValueError", "Unsupported url")

\* divide(a, b) of udf.py: a / b
DivideFn(args) ==
    IF DOMAIN args # {"a", "b"} THEN Err("TypeError", "divide() got unexpected arguments")
    ELSE IF ~(IsNum(args["a"]) /\ IsNum(args["b"]))
         THEN Err("TypeError", "unsupported operand type(s) for /")
    ELSE IF NumKey(args["b"]) = "0" THEN Err("ZeroDivisionError", "division by zero")
    ELSE IF NumKey(args["a"]) = "10" /\ NumKey(args["b"]) = "2" THEN Ok(PyFloat("5.0"))
    ELSE IF NumKey(args["a"]) = "10" /\ NumKey(args["b"]) = "5" THEN Ok(PyFloat("2.0"))
    ELSE Ok(PyFloat("q"))

\* ToolRegistry.call (no schemas registered)
ToolRegistry_call(name, args, reg) ==
    IF name \notin reg THEN Err("KeyError", "Tool not registered: " \o name)
    ELSE FetchFn(args)

\* RoutinePackage.get_udf followed by the call fn(**rendered_args)
get_udf(name) ==
    IF name \notin UdfFunctions THEN Err("ValueError", "UDF '" \o name \o "' not found in udf.py")
    ELSE Ok(Val("function", name))

_exec_tool_call(step, c, reg) ==
    LET ra == RenderArgs(step.args, c)
    IN IF ~ra.ok THEN [ok |-> FALSE, val |-> Absent, exc |-> ra.exc]
       ELSE ToolRegistry_call(step.tool, ra.val, reg)

_exec_udf_call(step, c) ==
    LET fn == get_udf(step.function)
        ra == RenderArgs(step.args, c)
    IN IF ~fn.ok THEN fn
       ELSE IF ~ra.ok THEN [ok |-> FALSE, val |-> Absent, exc |-> ra.exc]
       ELSE DivideFn(ra.val)

\* repr() of a value, and the text of an expression as the routine
\* document spells it (step.check is that text)
Repr(v) == IF v.t = "str" THEN "'" \o v.s \o "'" ELSE v.s
ExprText(e) ==
    CASE e.k = "name" -> e.name
      [] e.k = "const" -> Repr(e.v)
      [] e.k = "eq" -> e.name \o " == " \o Repr(e.v)
      [] e.k = "eqc" -> Repr(e.v) \o " == " \o Repr(e.w)
      [] OTHER -> ""

\* an assert that reports the stock message whatever the step says
_exec_assert_StockOnly(step, c) ==
    LET res == safe_eval(step.check, c)
    IN IF ~res.ok THEN res
       ELSE IF ~Truthy(res.val)
            THEN Err("AssertionError", "Assertion failed: " \o ExprText(step.check))
       ELSE Ok(PyNone)

_exec_assert(step, c) ==
    LET res == safe_eval(step.check, c)
    IN IF ~res.ok THEN res
       ELSE IF ~Truthy(res.val)
            THEN Err("AssertionError",
                     IF step.message # "" THEN step.message
                     ELSE "Assertion failed: " \o ExprText(step.check))
       ELSE Ok(PyNone)

\* whether _run_step gets as far as invoking the tool or the user function
Invokes(step, c, reg) ==
    CASE step.type = "tool.call" -> RenderArgs(step.args, c).ok /\ step.tool \in reg
      [] step.type = "udf.call" -> get_udf(step.function).ok /\ RenderArgs(step.args, c).ok
      [] OTHER -> FALSE

(***************************************************************************)
(* _run_step.  The outcome of one step body on context c:                  *)
(*   normal  returned; ctx is the context it left                          *)
(*   raise   an exception other than _StepResult; the context is untouched *)
(*   pause   prompt.user: a snapshot is saved and _StepResult(needs_input) *)
(*   return  return: _StepResult(ok, output)                               *)
(***************************************************************************)
Outcome(kind, c, e, out) == [kind |-> kind, ctx |-> c, exc |-> e, out |-> out]

_run_step(step, c, reg) ==
    CASE step.type \in {"tool.call", "udf.call"} ->
            LET r == IF step.type = "tool.call" THEN _exec_tool_call(step, c, reg)
                     ELSE _exec_udf_call(step, c)
            IN IF ~r.ok THEN Outcome("raise", c, r.exc, Absent)
               ELSE IF step.save_as # "" THEN Outcome("normal", Bind(c, step.save_as, r.val), NoExc, Absent)
               ELSE Outcome("normal", c, NoExc, Absent)
      [] step.type = "assert" ->
            LET r == _exec_assert(step, c)
            IN IF ~r.ok THEN Outcome("raise", c, r.exc, Absent)
               ELSE Outcome("normal", c, NoExc, Absent)
      [] step.type = "prompt.user" -> Outcome("pause", c, NoExc, Absent)
      [] step.type = "return" ->
            LET r == render_value(step.value, c)
            IN IF ~r.ok THEN Outcome("raise", c, r.exc, Absent)
               ELSE Outcome("return", c, NoExc, r.val)

(***************************************************************************)
(* Prompt answers (models/prompts.py).                                     *)
(***************************************************************************)
\* the answers mappings a caller submits
AnswerSet ==
    { [ok |-> PyTrue], [ok |-> PyFalse], <<>>, [ok |-> PyStr("yes")],
      [ok |-> PyTrue, extra |-> PyInt("1")] }

\* the Value an answers mapping is once bound in the context
DictValue(m) ==
    IF DOMAIN m = {} THEN PyDict("{}")
    ELSE IF DOMAIN m = {"ok"} THEN PyDict("{'ok': " \o m["ok"].s \o "}")
    ELSE PyDict("{'ok': " \o m["ok"].s \o ", 'extra': " \o m["extra"].s \o "}")

\* PromptAnswers.validate_against: the set of error messages
validate_against(values, prompt) ==
    LET fields == {prompt[j] : j \in 1..Len(prompt)}
        names == {f.name : f \in fields}
        FieldOf(n) == CHOOSE f \in fields : f.name = n
        optset(f) == {f.options[j] : j \in 1..Len(f.options)}
    IN {"Missing required field: " \o f.name :
            f \in {g \in fields : g.required /\ g.name \notin DOMAIN values}}
       \cup {"Unknown field: " \o n : n \in (DOMAIN values) \ names}
       \cup {"Field '" \o n \o "' must be a boolean" :
                n \in {m \in (DOMAIN values) \cap names :
                         FieldOf(m).type = "confirm" /\ values[m].t # "bool"}}
       \cup {"Field '" \o n \o "' must be a number" :
                n \in {m \in (DOMAIN values) \cap names :
                         FieldOf(m).type = "number" /\ ~IsNum(values[m])}}
       \cup {"Field '" \o n \o "' must be one of the options" :
                n \in {m \in (DOMAIN values) \cap names :
                         /\ FieldOf(m).type = "select"
                         /\ FieldOf(m).options # <<>>
                         /\ ~(values[m].t = "str" /\ values[m].s \in optset(FieldOf(m)))}}

(***************************************************************************)
(* The state store (runner/state_store.py, InMemoryStateStore): the set of *)
(* saved RunStates, at most one per run id.                                *)
(***************************************************************************)
RunState(run_id, step_index, c, pending_step_id) ==
    [run_id |-> run_id, step_index |-> step_index, context |-> c,
     pending_step_id |-> pending_step_id]

StoreSave(st, state) == {s \in st : s.run_id # state.run_id} \cup {state}
StoreHas(st, run_id) == \E s \in st : s.run_id = run_id
StoreLoad(st, run_id) == CHOOSE s \in st : s.run_id = run_id
\* a delete that leaves the snapshot where it is
StoreDelete_Keeps(st, run_id) == st
StoreDelete(st, run_id) == {s \in st : s.run_id # run_id}

(***************************************************************************)
(* Recovery callback (auto_fix_fn).  What one call of the callback does:   *)
(*   ret       "raise", "none" (returns None), "nondict", or "dict"        *)
(*   strategy, new_args (with has_new_args: whether it is a mapping),      *)
(*   default_value (with has_default)   the entries of a returned dict     *)
(*   mutates   whether the callback writes to its context argument         *)
(***************************************************************************)
Fix(ret, strategy, has_new_args, new_args, has_default, default_value, mutates) ==
    [ret |-> ret, strategy |-> strategy, has_new_args |-> has_new_args,
     new_args |-> new_args, has_default |-> has_default,
     default_value |-> default_value, mutates |-> mutates]
\* the value of `fix` when no callback was called
NoFix == Fix("nocall", "", FALSE, NoArgs, FALSE, PyNone, FALSE)

FixShapes ==
    { Fix("raise", "", FALSE, NoArgs, FALSE, PyNone, FALSE),
      Fix("none", "", FALSE, NoArgs, FALSE, PyNone, FALSE),
      Fix("none", "", FALSE, NoArgs, FALSE, PyNone, TRUE),
      Fix("nondict", "", FALSE, NoArgs, FALSE, PyNone, FALSE),
      Fix("dict", "fail", FALSE, NoArgs, FALSE, PyNone, FALSE),
      Fix("dict", "retry", TRUE, GoodArgs, FALSE, PyNone, FALSE),
      Fix("dict", "skip", FALSE, NoArgs, FALSE, PyNone, FALSE),
      Fix("dict", "skip", FALSE, NoArgs, TRUE, PyInt("-1"), FALSE),
      Fix("dict", "skip", FALSE, NoArgs, TRUE, PyInt("-1"), TRUE),
      Fix("dict", "modify_args", TRUE, GoodArgs, FALSE, PyNone, FALSE),
      Fix("dict", "modify_args", TRUE, GoodArgs, FALSE, PyNone, TRUE),
      Fix("dict", "modify_args", TRUE, BadArgs, FALSE, PyNone, FALSE),
      Fix("dict", "modify_args", FALSE, NoArgs, FALSE, PyNone, FALSE) }

\* what a mutating callback writes into the mapping it was handed
Scribble(c) == Bind(c, "r", PyStr("hacked"))

\* auto_fix_fn(step, exc, context, pkg.routine): the callback is handed the
\* engine's own context mapping, so its writes are writes to the context
ContextAfterCallback(c, f) == IF f.mutates THEN Scribble(c) ELSE c

\* `fix is not None and isinstance(fix, dict)` after the try/except
UsableFix(f) == f.ret = "dict"
IsModifyArgs(f) == UsableFix(f) /\ f.strategy = "modify_args" /\ f.has_new_args
IsSkip(f) == UsableFix(f) /\ f.strategy = "skip"
\* a skip that ignores default_value
DefaultValue_Ignored(f) == PyNone

\* fix.get("default_value")
DefaultValue(f) == IF f.has_default THEN f.default_value ELSE PyNone

(***************************************************************************)
(* Run results (models/results.py).                                        *)
(***************************************************************************)
OutValue(v) == [kind |-> "value", v |-> v, c |-> EmptyCtx]
OutContext(c) == [kind |-> "context", v |-> Absent, c |-> c]
FailureReport(step_id, error_type, message, c) ==
    [step_id |-> step_id, error_type |-> error_type, message |-> message, context |-> c]
NoFailure == FailureReport("", "", "", EmptyCtx)
RunResult(run_id, status, output, failure, pending_prompt, c) ==
    [run_id |-> run_id, status |-> status, output |-> output, failure |-> failure,
     pending_prompt |-> pending_prompt, context |-> c]
NoResult == RunResult("", "none", OutValue(PyNone), NoFailure, "", EmptyCtx)

\* the failed result of _execute_steps for exception e at step id sid
StepFailure(run_id, sid, e, c) ==
    RunResult(run_id, "failed", OutValue(PyNone), FailureReport(sid, e.type, e.msg, c), "", EmptyCtx)

\* the run id generate_run_id returns
RunId == "r1"

\* the inputs runs are started with
Inputs ==
    { EmptyCtx, Bind(EmptyCtx, "flag", PyFalse), Bind(EmptyCtx, "flag", PyTrue) }

Indices == 0..(MaxSteps - 1)

VARIABLES
    pkgState,     \* the routine directory: "ok", "missing" (no routine.yaml), "malformed"
    routine,      \* the steps of the routine document in the directory
    input,        \* input_data of the run
    registry,     \* the names registered in the tool registry
    auto_fix_fn,  \* whether run_routine is given a recovery callback
    store,        \* the state store
    pc,           \* "idle", "loop", "recover", "apply", "returned", "raised"
    op,           \* the invocation in progress or last finished: "run" or "resume"
    i,            \* the loop index of _execute_steps (0-based)
    context,      \* the execution context
    use_fix,      \* auto_fix_fn of the invocation in progress
    exc,          \* the exception caught from _run_step
    fix,          \* what the callback did, NoFix if it was not called
    result,       \* the RunResult the last invocation returned, NoResult while one runs
    bodyRuns,     \* per step index: how often _run_step was entered
    fixCalls,     \* per step index: how often the callback was called
    invoked,      \* per step index: how often its tool or user function was invoked
    answered,     \* per step index: the answers a resume bound for that prompt
    fixLog        \* per step index: what the callback did for it

\* state of the components when they are exercised on their own, outside a
\* run of the engine
VARIABLES
    disk,         \* the directory of the file state store: path -> file
    heap,         \* the mutable list objects Values refer to: reference -> items
    saved,        \* per store and run id: the states a load may rightly return
    arg,          \* the argument of the call in progress or last finished
    ret           \* what the last call returned or raised

bench == <<disk, heap, saved, arg, ret>>
\* no component is exercised on its own
BenchOff == disk = <<>> /\ heap = <<>> /\ saved = <<>> /\ arg = <<>> /\ ret = <<>>

package == <<pkgState, routine, input, registry, auto_fix_fn>>
config == <<package, bench>>
\* what a retry leaves alone whatever it does with the step it patches
around == <<pkgState, input, registry, auto_fix_fn, bench>>
history == <<bodyRuns, fixCalls, invoked, answered, fixLog>>
vars == <<pkgState, routine, input, registry, auto_fix_fn, store, pc, op, i, context,
          use_fix, exc, fix, result, bodyRuns, fixCalls, invoked, answered, fixLog,
          disk, heap, saved, arg, ret>>

Init ==
    /\ pkgState \in {"ok", "missing", "malformed"}
    /\ routine \in (IF pkgState = "ok" THEN Routines ELSE {<<>>})
    /\ input \in (IF pkgState = "ok" THEN Inputs ELSE {EmptyCtx})
    /\ registry \in (IF pkgState = "ok" THEN SUBSET ToolNames ELSE {{}})
    /\ auto_fix_fn \in (IF pkgState = "ok" THEN BOOLEAN ELSE {FALSE})
    /\ store = {}
    /\ pc = "idle"
    /\ op = "none"
    /\ i = 0
    /\ context = EmptyCtx
    /\ use_fix = FALSE
    /\ exc = NoExc
    /\ fix = NoFix
    /\ result = NoResult
    /\ bodyRuns = [j \in Indices |-> 0]
    /\ fixCalls = [j \in Indices |-> 0]
    /\ invoked = [j \in Indices |-> 0]
    /\ answered = [j \in Indices |-> Absent]
    /\ fixLog = [j \in Indices |-> NoFix]
    /\ BenchOff

(***************************************************************************)
(* run_routine: load the package, then _execute_steps from index 0.  A     *)
(* missing or malformed routine.yaml makes RoutinePackage(...) raise, and  *)
(* nothing in run_routine catches it.                                      *)
(***************************************************************************)
run_routine ==
    /\ pc = "idle"
    /\ IF pkgState # "ok"
       THEN /\ pc' = "raised"
            /\ op' = "run"
            /\ UNCHANGED <<i, context, use_fix>>
       ELSE /\ pc' = "loop"
            /\ op' = "run"
            /\ i' = 0
            /\ context' = input
            /\ use_fix' = auto_fix_fn
    /\ UNCHANGED <<config, history, store, exc, fix, result>>

(***************************************************************************)
(* _execute_steps: one iteration of the loop over steps[i].                *)
(***************************************************************************)
step == routine[i + 1]
InLoop == pc = "loop" /\ i < Len(routine)
\* `if step.when:`
HasGuard == step.when # NoExpr
Guard == safe_eval(step.when, context)
\* the step passes its guard and _run_step is entered
Dispatched == InLoop /\ (~HasGuard \/ (Guard.ok /\ Truthy(Guard.val)))
Body == _run_step(step, context, registry)

Entered(runs, j) == [runs EXCEPT ![j] = @ + 1]
InvokedBy(st, c) == IF Invokes(st, c, registry) THEN [invoked EXCEPT ![i] = @ + 1] ELSE invoked

\* a snapshot that records the index to resume at instead of the paused index
Snapshot_NextIndex(st, c, index) == RunState(RunId, index + 1, c, st.id)

\* the RunState a prompt.user step saves
Snapshot(st, c, index) == RunState(RunId, index, c, st.id)

\* a skipped step that takes the next step with it
GuardFalse_SkipsTwo ==
    /\ InLoop /\ HasGuard /\ Guard.ok /\ ~Truthy(Guard.val)
    /\ i' = i + 2
    /\ UNCHANGED <<config, history, store, pc, op, context, use_fix, exc, fix, result>>

\* falsy guard: `continue`
GuardFalse ==
    /\ InLoop /\ HasGuard /\ Guard.ok /\ ~Truthy(Guard.val)
    /\ i' = i + 1
    /\ UNCHANGED <<config, history, store, pc, op, context, use_fix, exc, fix, result>>

\* a guard error that is handed to the recovery path like a step error
GuardError_Recovers ==
    /\ InLoop /\ HasGuard /\ ~Guard.ok
    /\ exc' = Exc("ConditionError", "Error evaluating 'when' condition: " \o Guard.exc.msg)
    /\ pc' = "recover"
    /\ UNCHANGED <<config, history, store, op, i, context, use_fix, fix, result>>

\* the guard raises: ConditionError
GuardError ==
    /\ InLoop /\ HasGuard /\ ~Guard.ok
    /\ result' = StepFailure(RunId, step.id,
                             Exc("ConditionError", "Error evaluating 'when' condition: " \o Guard.exc.msg),
                             context)
    /\ pc' = "returned"
    /\ UNCHANGED <<config, history, store, op, i, context, use_fix, exc, fix>>

\* a step body whose writes never reach the context
StepNormal_KeepsContext ==
    /\ Dispatched /\ Body.kind = "normal"
    /\ context' = context
    /\ i' = i + 1
    /\ bodyRuns' = Entered(bodyRuns, i)
    /\ invoked' = InvokedBy(step, context)
    /\ UNCHANGED <<config, store, pc, op, use_fix, exc, fix, result, fixCalls, answered, fixLog>>

\* _run_step returns normally
StepNormal ==
    /\ Dispatched /\ Body.kind = "normal"
    /\ context' = Body.ctx
    /\ i' = i + 1
    /\ bodyRuns' = Entered(bodyRuns, i)
    /\ invoked' = InvokedBy(step, context)
    /\ UNCHANGED <<config, store, pc, op, use_fix, exc, fix, result, fixCalls, answered, fixLog>>

\* prompt.user: save the snapshot, then _StepResult(needs_input)
StepPause ==
    /\ Dispatched /\ Body.kind = "pause"
    /\ store' = StoreSave(store, Snapshot(step, context, i))
    /\ result' = RunResult(RunId, "needs_input", OutValue(PyNone), NoFailure, step.id, context)
    /\ pc' = "returned"
    /\ bodyRuns' = Entered(bodyRuns, i)
    /\ UNCHANGED <<config, op, i, context, use_fix, exc, fix, fixCalls, invoked, answered, fixLog>>

\* a return whose output depends on something outside the run
StepReturn_Unstable ==
    /\ Dispatched /\ Body.kind = "return"
    /\ \E out \in {Body.out, PyStr("other")} :
          result' = RunResult(RunId, "ok", OutValue(out), NoFailure, "", context)
    /\ pc' = "returned"
    /\ bodyRuns' = Entered(bodyRuns, i)
    /\ UNCHANGED <<config, store, op, i, context, use_fix, exc, fix, fixCalls, invoked, answered, fixLog>>

\* a return after which the loop goes on
StepReturn_FallsThrough ==
    /\ Dispatched /\ Body.kind = "return"
    /\ i' = i + 1
    /\ bodyRuns' = Entered(bodyRuns, i)
    /\ UNCHANGED <<config, store, pc, op, context, use_fix, exc, fix, result, fixCalls, invoked, answered, fixLog>>

\* return: _StepResult(ok, output)
StepReturn ==
    /\ Dispatched /\ Body.kind = "return"
    /\ result' = RunResult(RunId, "ok", OutValue(Body.out), NoFailure, "", context)
    /\ pc' = "returned"
    /\ bodyRuns' = Entered(bodyRuns, i)
    /\ UNCHANGED <<config, store, op, i, context, use_fix, exc, fix, fixCalls, invoked, answered, fixLog>>

\* _run_step raises: `except Exception as exc`
StepRaise ==
    /\ Dispatched /\ Body.kind = "raise"
    /\ exc' = Body.exc
    /\ pc' = "recover"
    /\ bodyRuns' = Entered(bodyRuns, i)
    /\ invoked' = InvokedBy(step, context)
    /\ UNCHANGED <<config, store, op, i, context, use_fix, fix, result, fixCalls, answered, fixLog>>

\* the loop is over without a return: the context is the output
LoopEnd ==
    /\ pc = "loop" /\ i >= Len(routine)
    /\ result' = RunResult(RunId, "ok", OutContext(context), NoFailure, "", EmptyCtx)
    /\ pc' = "returned"
    /\ UNCHANGED <<config, history, store, op, i, context, use_fix, exc, fix>>

(***************************************************************************)
(* Failure handling.                                                       *)
(***************************************************************************)
\* `if auto_fix_fn is not None: fix = auto_fix_fn(step, exc, context, routine)`
CallAutoFix ==
    /\ pc = "recover" /\ use_fix
    /\ \E f \in FixShapes :
          /\ fix' = f
          /\ context' = ContextAfterCallback(context, f)
          /\ fixLog' = [fixLog EXCEPT ![i] = f]
    /\ fixCalls' = Entered(fixCalls, i)
    /\ pc' = "apply"
    /\ UNCHANGED <<config, store, op, i, use_fix, exc, result, bodyRuns, invoked, answered>>

\* no callback: fix stays None
NoAutoFix ==
    /\ pc = "recover" /\ ~use_fix
    /\ fix' = NoFix
    /\ pc' = "apply"
    /\ UNCHANGED <<config, history, store, op, i, context, use_fix, exc, result>>

\* a patch written into the loaded step itself
steps_after_patch_InPlace == [routine EXCEPT ![i + 1].args = fix.new_args]

\* pkg.routine.steps after `step.model_copy(update=...)`: the copy is a new
\* object, the list keeps the step that was loaded
steps_after_patch == routine

\* a retry that forgets the patch
patched_step_Unpatched == step

\* step.model_copy(update={"args": new_args})
patched_step == [step EXCEPT !.args = fix.new_args]
RetryBody == _run_step(patched_step, context, registry)

\* modify_args: the retry returns normally, `continue`
RetryNormal ==
    /\ pc = "apply" /\ IsModifyArgs(fix) /\ RetryBody.kind = "normal"
    /\ context' = RetryBody.ctx
    /\ i' = i + 1
    /\ pc' = "loop"
    /\ bodyRuns' = Entered(bodyRuns, i)
    /\ invoked' = InvokedBy(patched_step, context)
    /\ routine' = steps_after_patch
    /\ UNCHANGED <<around, store, op, use_fix, exc, fix, result, fixCalls, answered, fixLog>>

\* modify_args: the retry of a prompt.user or return step ends the invocation
RetrySignal ==
    /\ pc = "apply" /\ IsModifyArgs(fix) /\ RetryBody.kind \in {"pause", "return"}
    /\ IF RetryBody.kind = "pause"
       THEN /\ store' = StoreSave(store, Snapshot(patched_step, context, i))
            /\ result' = RunResult(RunId, "needs_input", OutValue(PyNone), NoFailure, step.id, context)
       ELSE /\ store' = store
            /\ result' = RunResult(RunId, "ok", OutValue(RetryBody.out), NoFailure, "", context)
    /\ pc' = "returned"
    /\ bodyRuns' = Entered(bodyRuns, i)
    /\ routine' = steps_after_patch
    /\ UNCHANGED <<around, op, i, context, use_fix, exc, fix, fixCalls, invoked, answered, fixLog>>

\* a retry whose failure is handed to the recovery callback again
RetryRaise_RecoversAgain ==
    /\ pc = "apply" /\ IsModifyArgs(fix) /\ RetryBody.kind = "raise"
    /\ exc' = RetryBody.exc
    /\ pc' = "recover"
    /\ bodyRuns' = Entered(bodyRuns, i)
    /\ invoked' = InvokedBy(patched_step, context)
    /\ routine' = steps_after_patch
    /\ UNCHANGED <<around, store, op, i, context, use_fix, fix, result, fixCalls, answered, fixLog>>

\* modify_args: the retry raises too: failed, with the retry's exception
RetryRaise ==
    /\ pc = "apply" /\ IsModifyArgs(fix) /\ RetryBody.kind = "raise"
    /\ result' = StepFailure(RunId, step.id, RetryBody.exc, context)
    /\ pc' = "returned"
    /\ bodyRuns' = Entered(bodyRuns, i)
    /\ invoked' = InvokedBy(patched_step, context)
    /\ routine' = steps_after_patch
    /\ UNCHANGED <<around, store, op, i, context, use_fix, exc, fix, fixCalls, answered, fixLog>>

\* skip: bind default_value to save_as, `continue`
SkipStep ==
    /\ pc = "apply" /\ IsSkip(fix)
    /\ context' = IF step.save_as # "" THEN Bind(context, step.save_as, DefaultValue(fix))
                  ELSE context
    /\ i' = i + 1
    /\ pc' = "loop"
    /\ UNCHANGED <<config, history, store, op, use_fix, exc, fix, result>>

\* a failure that reports the callback's own exception when the callback raised
FailStep_ReportsCallback ==
    /\ pc = "apply" /\ ~IsModifyArgs(fix) /\ ~IsSkip(fix)
    /\ result' = StepFailure(RunId, step.id,
                             IF fix.ret = "raise" THEN Exc("RuntimeError", "fix callback broke") ELSE exc,
                             context)
    /\ pc' = "returned"
    /\ UNCHANGED <<config, history, store, op, i, context, use_fix, exc, fix>>

\* no fix, strategy "fail" or anything else: failed, with the original exception
FailStep ==
    /\ pc = "apply" /\ ~IsModifyArgs(fix) /\ ~IsSkip(fix)
    /\ result' = StepFailure(RunId, step.id, exc, context)
    /\ pc' = "returned"
    /\ UNCHANGED <<config, history, store, op, i, context, use_fix, exc, fix>>

(***************************************************************************)
(* resume_run(run_id, answers, state_store).                               *)
(***************************************************************************)
JoinErrors(errs) ==
    IF Cardinality(errs) = 1 THEN CHOOSE e \in errs : TRUE ELSE "several errors"

ResumeFailure(run_id, sid, kind, message) ==
    RunResult(run_id, "failed", OutValue(PyNone), FailureReport(sid, kind, message, EmptyCtx), "", EmptyCtx)

\* an unknown run id reported as a broken snapshot
StateNotFound_AsInvalidState(run_id) ==
    ResumeFailure(run_id, "", "InvalidState", "No saved state for run_id=" \o run_id)

\* `if state is None`: the result for a run id without a snapshot
StateNotFound(run_id) ==
    ResumeFailure(run_id, "", "StateNotFound", "No saved state for run_id=" \o run_id)

\* the first step with the pending id, 0 if there is none
PendingPos(state) ==
    LET at == {j \in 1..Len(routine) : routine[j].id = state.pending_step_id}
    IN IF at = {} THEN 0 ELSE CHOOSE j \in at : \A k \in at : j <= k

\* a resume that forgets the restored context
ResumeContext_AnswersOnly(state, pending_step, answers) ==
    Bind(EmptyCtx,
         IF pending_step.save_as # "" THEN pending_step.save_as ELSE "_prompt_answers",
         DictValue(answers))

\* the answers bound under the wrong, reserved name whatever save_as says
ResumeContext_ReservedOnly(state, pending_step, answers) ==
    Bind(state.context, "_prompt_answers", DictValue(answers))

\* "Inject answers into context": the snapshot's context with the answers
\* bound under save_as, else under _prompt_answers
ResumeContext(state, pending_step, answers) ==
    Bind(state.context,
         IF pending_step.save_as # "" THEN pending_step.save_as ELSE "_prompt_answers",
         DictValue(answers))

\* a rejection that throws the snapshot away
ValidationRejected_DropsSnapshot(run_id, state, validation_errors) ==
    /\ result' = ResumeFailure(run_id, state.pending_step_id, "ValidationError",
                               JoinErrors(validation_errors))
    /\ store' = StoreDelete(store, run_id)
    /\ UNCHANGED <<pc, i, context, use_fix, answered>>

\* `if validation_errors:` the failed result, nothing else touched
ValidationRejected(run_id, state, validation_errors) ==
    /\ result' = ResumeFailure(run_id, state.pending_step_id, "ValidationError",
                               JoinErrors(validation_errors))
    /\ UNCHANGED <<store, pc, i, context, use_fix, answered>>

\* a resume that starts over at the prompt it was paused at
start_index_SameStep(state) == state.step_index

\* `start_index=state.step_index + 1`
start_index(state) == state.step_index + 1

\* a resume that goes on with the callback the run was started with
resumed_auto_fix_fn_Kept == auto_fix_fn

\* resume_run has no auto_fix_fn parameter and passes none to
\* _execute_steps, whose default is None
resumed_auto_fix_fn == FALSE

resume_run(run_id, answers) ==
    /\ pc = "returned"
    /\ op' = "resume"
    /\ IF ~StoreHas(store, run_id)
       THEN /\ result' = StateNotFound(run_id)
            /\ UNCHANGED <<store, pc, i, context, use_fix, answered>>
       ELSE LET state == StoreLoad(store, run_id)
                pos == PendingPos(state)
            IN IF pos = 0 \/ routine[pos].prompt = NoPrompt
               THEN /\ result' = ResumeFailure(run_id, state.pending_step_id, "InvalidState",
                                               "Pending step is not a prompt.user step")
                    /\ UNCHANGED <<store, pc, i, context, use_fix, answered>>
               ELSE LET pending_step == routine[pos]
                        validation_errors == validate_against(answers, pending_step.prompt)
                    IN IF validation_errors # {}
                       THEN ValidationRejected(run_id, state, validation_errors)
                       ELSE /\ context' = ResumeContext(state, pending_step, answers)
                            /\ store' = StoreDelete(store, run_id)
                            /\ i' = start_index(state)
                            /\ pc' = "loop"
                            /\ use_fix' = resumed_auto_fix_fn
                            /\ answered' = [answered EXCEPT ![state.step_index] = DictValue(answers)]
                            /\ result' = NoResult
    /\ UNCHANGED <<config, exc, fix, bodyRuns, fixCalls, invoked, fixLog>>

Resume == \E answers \in AnswerSet : resume_run(RunId, answers)

Next ==
    \/ run_routine
    \/ GuardFalse
    \/ GuardError
    \/ StepNormal
    \/ StepPause
    \/ StepReturn
    \/ StepRaise
    \/ LoopEnd
    \/ CallAutoFix
    \/ NoAutoFix
    \/ RetryNormal
    \/ RetrySignal
    \/ RetryRaise
    \/ SkipStep
    \/ FailStep
    \/ Resume

Spec == Init /\ [][Next]_vars

(***************************************************************************)
(* The routine document changes on disk while a run is paused: resume_run  *)
(* loads the package anew (RoutinePackage(routine_dir)) and looks the      *)
(* pending step up by id in whatever the document holds then.  The edits:  *)
(*   retype  the pending step becomes a return step, its prompt mapping    *)
(*           left in place (Step accepts any field on any step type)       *)
(*   strip   the pending step becomes a return step without prompt mapping *)
(*   rename  the pending step gets another id                              *)
(***************************************************************************)
EditKinds == {"retype", "strip", "rename"}

EditedStep(st, kind) ==
    CASE kind = "retype" -> [st EXCEPT !.type = "return", !.value = Sole("r")]
      [] kind = "strip" -> [st EXCEPT !.type = "return", !.value = Sole("r"), !.prompt = NoPrompt]
      [] kind = "rename" -> [st EXCEPT !.id = "s9"]

EditRoutine ==
    /\ pc = "returned" /\ StoreHas(store, RunId)
    /\ LET pos == PendingPos(StoreLoad(store, RunId))
       IN /\ pos # 0 /\ routine[pos].type = "prompt.user"
          /\ \E kind \in EditKinds : routine' = [routine EXCEPT ![pos] = EditedStep(@, kind)]
    /\ UNCHANGED <<pkgState, input, registry, auto_fix_fn, history, store, pc, op, i,
                   context, use_fix, exc, fix, result, bench>>

NextEdit ==
    \/ Next
    \/ EditRoutine

SpecEdit == Init /\ [][NextEdit]_vars
(***************************************************************************)
(* The uninterrupted execution: _execute_steps from step j on context c    *)
(* with every prompt.user step answered on the spot, the answers bound as  *)
(* resume_run binds them.  rec: a recovery callback is consulted; after:   *)
(* it is still consulted for the steps after a prompt; f0: what it does at *)
(* a step for which the run recorded no call.                              *)
(***************************************************************************)
RefResult(status, output) == [status |-> status, output |-> output]

RECURSIVE Inline(_, _, _, _, _)
Inline(j, c, rec, after, f0) ==
    IF j >= Len(routine) THEN RefResult("ok", OutContext(c))
    ELSE LET st == routine[j + 1]
             g == safe_eval(st.when, c)
             o == _run_step(st, c, registry)
             f == IF ~rec THEN NoFix ELSE IF fixLog[j] # NoFix THEN fixLog[j] ELSE f0
             c2 == ContextAfterCallback(c, f)
             o2 == _run_step([st EXCEPT !.args = f.new_args], c2, registry)
             failed == RefResult("failed", OutValue(PyNone))
             key == IF st.save_as # "" THEN st.save_as ELSE "_prompt_answers"
             Finish(oo, cc) ==
                 CASE oo.kind = "normal" -> Inline(j + 1, oo.ctx, rec, after, f0)
                   [] oo.kind = "return" -> RefResult("ok", OutValue(oo.out))
                   [] oo.kind = "pause" ->
                        IF answered[j] = Absent
                        THEN RefResult("needs_input", OutValue(PyNone))
                        ELSE Inline(j + 1, Bind(cc, key, answered[j]), rec /\ after, after, f0)
                   [] OTHER -> failed
         IN IF st.when # NoExpr /\ ~g.ok THEN failed
            ELSE IF st.when # NoExpr /\ ~Truthy(g.val) THEN Inline(j + 1, c, rec, after, f0)
            ELSE IF o.kind # "raise" THEN Finish(o, c)
            ELSE IF IsModifyArgs(f) THEN Finish(o2, c2)
            ELSE IF IsSkip(f)
                 THEN Inline(j + 1,
                             IF st.save_as # "" THEN Bind(c2, st.save_as, DefaultValue(f)) ELSE c2,
                             rec, after, f0)
            ELSE failed

(***************************************************************************)
(* A second run: run_routine once more on the same routine document, input *)
(* and registry, under run id rid, the tools and user functions behaving   *)
(* as before and the recovery callback doing at each step what it did      *)
(* there in the first run (fixLog).  The value is what that run returns    *)
(* and what it leaves in a fresh state store.                              *)
(***************************************************************************)
Ended(res, st) == [result |-> res, store |-> st]

RECURSIVE SecondRun(_, _, _)
SecondRun(rid, j, c) ==
    IF j >= Len(routine)
    THEN Ended(RunResult(rid, "ok", OutContext(c), NoFailure, "", EmptyCtx), {})
    ELSE LET st == routine[j + 1]
             g == safe_eval(st.when, c)
             o == _run_step(st, c, registry)
             f == IF auto_fix_fn THEN fixLog[j] ELSE NoFix
             c2 == ContextAfterCallback(c, f)
             o2 == _run_step([st EXCEPT !.args = f.new_args], c2, registry)
             After(oo, cc) ==
                 CASE oo.kind = "normal" -> SecondRun(rid, j + 1, oo.ctx)
                   [] oo.kind = "return" ->
                        Ended(RunResult(rid, "ok", OutValue(oo.out), NoFailure, "", cc), {})
                   [] oo.kind = "pause" ->
                        Ended(RunResult(rid, "needs_input", OutValue(PyNone), NoFailure, st.id, cc),
                              {RunState(rid, j, cc, st.id)})
                   [] OTHER -> Ended(StepFailure(rid, st.id, oo.exc, cc), {})
         IN IF st.when # NoExpr /\ ~g.ok
            THEN Ended(StepFailure(rid, st.id,
                                   Exc("ConditionError",
                                       "Error evaluating 'when' condition: " \o g.exc.msg), c), {})
            ELSE IF st.when # NoExpr /\ ~Truthy(g.val) THEN SecondRun(rid, j + 1, c)
            ELSE IF o.kind # "raise" THEN After(o, c)
            ELSE IF IsModifyArgs(f) THEN After(o2, c2)
            ELSE IF IsSkip(f)
                 THEN SecondRun(rid, j + 1,
                                IF st.save_as # "" THEN Bind(c2, st.save_as, DefaultValue(f)) ELSE c2)
            ELSE Ended(StepFailure(rid, st.id, o.exc, c2), {})

(***************************************************************************)
(* Properties.                                                             *)
(***************************************************************************)
\* the failure kinds resume_run reports before it executes any step
ResumeErrors == {"StateNotFound", "InvalidState", "ValidationError"}
\* the invocation that finished last went through _execute_steps
FromSteps == pc = "returned" /\ result.failure.error_type \notin ResumeErrors

\* C1: run and resume never raise across the public boundary: every call
\* returns a RunResult, and a missing or malformed routine document yields
\* status = failed with an empty context.
C1_NeverRaises ==
    /\ pc # "raised"
    /\ (op = "run" /\ pkgState # "ok") =>
          (pc = "returned" /\ result.status = "failed" /\ result.context = EmptyCtx)

\* C2: whenever the result is needs_input with pending_prompt = p, the store
\* already holds a snapshot under the result's run id whose pending step is
\* p, whose step_index is the index of step p (a prompt.user step that was
\* entered) and whose context is the execution context at the pause.
C2_SnapshotBeforeNeedsInput ==
    result.status = "needs_input" =>
       /\ StoreHas(store, result.run_id)
       /\ Cardinality({s \in store : s.run_id = result.run_id}) = 1
       /\ LET s == StoreLoad(store, result.run_id)
          IN /\ s.pending_step_id = result.pending_prompt
             /\ s.step_index \in 0..(Len(routine) - 1)
             /\ routine[s.step_index + 1].id = result.pending_prompt
             /\ routine[s.step_index + 1].type = "prompt.user"
             /\ bodyRuns[s.step_index] >= 1
             /\ s.context = context
             /\ s.context = result.context

\* C2 witness: a resumed execution paused again at a later prompt
C2_Witness ==
    /\ result.status = "needs_input" /\ op = "resume"
    /\ StoreHas(store, RunId) /\ StoreLoad(store, RunId).step_index = 1
    /\ Has(context, "ans")
\* C3 (as amended): a run that paused, followed by resumes with valid
\* answers, ends with the status and output of the uninterrupted execution
\* that answers the prompts inline with those answers and consults the
\* recovery callback only for the steps before the first prompt.
C3_RoundTrip ==
    (op = "resume" /\ FromSteps /\ result.status \in {"ok", "failed"}) =>
       LET ref == Inline(0, input, auto_fix_fn, FALSE, NoFix)
       IN ref.status = result.status /\ ref.output = result.output

\* C3 (as stated): the same, against the uninterrupted execution of the run
\* as it was started, its recovery callback included, whatever that
\* callback does at the steps after the prompt.
C3_RoundTrip_Original ==
    (op = "resume" /\ FromSteps /\ result.status \in {"ok", "failed"}) =>
       \A f0 \in FixShapes :
          LET ref == Inline(0, input, auto_fix_fn, TRUE, f0)
          IN ref.status = result.status /\ ref.output = result.output

\* C3 witness: a resumed run that ended ok with the answers in its output
C3_Witness ==
    /\ op = "resume" /\ FromSteps /\ result.status = "ok"
    /\ result.output = OutValue(PyDict("{'ok': True}"))
    /\ answered[0] = PyDict("{'ok': True}")

\* C4: for every step, the recovery callback is called at most once and the
\* step body is entered at most twice (a second time only after a call of
\* the callback); a retry that raises ends the run failed without another
\* call of the callback.
C4_SingleRetry ==
    /\ [](\A j \in Indices :
             /\ fixCalls[j] <= 1
             /\ bodyRuns[j] <= 2
             /\ (bodyRuns[j] = 2 => fixCalls[j] = 1))
    /\ [][(pc = "apply" /\ fix.ret = "dict" /\ fix.strategy = "modify_args"
             /\ fix.has_new_args /\ RetryBody.kind = "raise")
          => (pc' = "returned" /\ result'.status = "failed" /\ fixCalls' = fixCalls)]_vars

\* C4 witness: a step was retried once and the retry raised
C4_Witness ==
    /\ pc = "returned" /\ result.status = "failed"
    /\ \E j \in Indices : bodyRuns[j] = 2 /\ fixCalls[j] = 1 /\ i = j
    /\ fix.strategy = "modify_args"

\* C5: on {strategy: modify_args, new_args: <mapping>} the same step is
\* executed again with args replaced by new_args; if that returns, its
\* result is bound to save_as and the loop goes on with the next step; if it
\* raises, the run ends failed at that step.
C5_ModifyArgs ==
    [][(pc = "apply" /\ fix.ret = "dict" /\ fix.strategy = "modify_args" /\ fix.has_new_args)
       => LET again == [step EXCEPT !.args = fix.new_args]
              o == _run_step(again, context, registry)
              r == IF step.type = "tool.call" THEN _exec_tool_call(again, context, registry)
                   ELSE _exec_udf_call(again, context)
          IN /\ bodyRuns'[i] = bodyRuns[i] + 1
             /\ o.kind = "normal" =>
                   /\ pc' = "loop" /\ i' = i + 1 /\ result' = result
                   /\ (step.type \in {"tool.call", "udf.call"} /\ step.save_as # "")
                         => context' = [context EXCEPT ![step.save_as] = r.val]
                   /\ (step.function = "divide" /\ fix.new_args = GoodArgs)
                         => context'["r"] = PyFloat("5.0")
             /\ o.kind = "raise" =>
                   /\ pc' = "returned" /\ result'.status = "failed"
                   /\ result'.failure.step_id = step.id
                   /\ context' = context]_vars

\* C5 witness: a retry with new_args succeeded and the loop went on
C5_Witness ==
    /\ pc = "loop" /\ i = 1 /\ bodyRuns[0] = 2
    /\ fixLog[0].strategy = "modify_args"
    /\ context["r"] = PyFloat("5.0")

\* C6: on {strategy: skip} the step's save_as slot (if any) is bound to
\* default_value, null when absent, no other key changes and the loop goes
\* on with the next step; a return of that slot right after outputs the
\* default value.
C6_Skip ==
    /\ [][(pc = "apply" /\ fix.ret = "dict" /\ fix.strategy = "skip")
          => /\ context' = IF step.save_as # ""
                           THEN [context EXCEPT ![step.save_as] =
                                    IF fix.has_default THEN fix.default_value ELSE PyNone]
                           ELSE context
             /\ pc' = "loop" /\ i' = i + 1
             /\ UNCHANGED <<store, result, bodyRuns, invoked>>]_vars
    /\ []((/\ pc = "returned" /\ result.status = "ok" /\ op = "run"
           /\ i >= 1 /\ i < Len(routine)
           /\ fixLog[i - 1].ret = "dict" /\ fixLog[i - 1].strategy = "skip"
           /\ routine[i].save_as # ""
           /\ routine[i + 1].type = "return"
           /\ routine[i + 1].value = Sole(routine[i].save_as))
          => result.output = OutValue(IF fixLog[i - 1].has_default
                                      THEN fixLog[i - 1].default_value ELSE PyNone))

\* C6 witness: a skipped step's slot, bound to the default -1, was returned
C6_Witness ==
    /\ pc = "returned" /\ result.status = "ok" /\ i = 1
    /\ fixLog[0].strategy = "skip"
    /\ result.output = OutValue(PyInt("-1"))

\* C7: with no callback, or one that raises, returns null, {strategy: fail}
\* or anything else unrecognised, the run ends failed with the original
\* exception's class name and message and the failing step's id, and no
\* later step is executed.
C7_NoFixFails ==
    /\ [][(/\ pc = "apply"
           /\ \/ fix = NoFix
              \/ fix.ret \in {"raise", "none", "nondict"}
              \/ (fix.ret = "dict" /\ fix.strategy \notin {"modify_args", "skip"})
              \/ (fix.ret = "dict" /\ fix.strategy = "modify_args" /\ ~fix.has_new_args))
          => /\ pc' = "returned"
             /\ result'.status = "failed"
             /\ result'.failure.step_id = StepId(i)
             /\ result'.failure.error_type = exc.type
             /\ result'.failure.message = exc.msg
             /\ UNCHANGED <<bodyRuns, invoked, context, store>>]_vars
    /\ []((FromSteps /\ result.status = "failed")
          => /\ store = {}
             /\ \A j \in Indices : j > i => bodyRuns[j] = 0)

\* C7 witness: the callback raised and the run failed with the step's own
\* exception, the step after it never entered
C7_Witness ==
    /\ pc = "returned" /\ result.status = "failed" /\ i = 0 /\ Len(routine) = 2
    /\ fix.ret = "raise"
    /\ result.failure.error_type = "ZeroDivisionError"
    /\ result.failure.step_id = "s1"
    /\ bodyRuns[1] = 0

\* C8: the recovery callback cannot change the run's state: the execution
\* context (and the routine) are the same after the call as before it.
C8_CallbackCannotChangeContext ==
    [][pc = "recover" => (context' = context /\ routine' = routine)]_vars

\* the values Python tests as false
Falsy == {PyNone, PyFalse, PyInt("0"), PyFloat("0.0"), PyStr(""), PyDict("{}")}

\* C9: a step whose `when` evaluates falsy is not dispatched: no tool or
\* user function is invoked, no snapshot is saved, no result is produced,
\* the context is unchanged and the loop goes on with the next step.
C9_GuardSkip ==
    [][(/\ pc = "loop" /\ i < Len(routine)
        /\ routine[i + 1].when.k = "name"
        /\ routine[i + 1].when.name \in Keys
        /\ context[routine[i + 1].when.name] \in Falsy)
       => /\ pc' = "loop" /\ i' = i + 1
          /\ UNCHANGED <<context, store, result, bodyRuns, invoked, fixCalls>>]_vars

\* C9 witness: a guarded prompt.user step was passed over without a pause
C9_Witness ==
    /\ pc = "loop" /\ i = 1
    /\ routine[1].type = "prompt.user" /\ routine[1].when = Name("flag")
    /\ context["flag"] = PyFalse
    /\ bodyRuns[0] = 0 /\ store = {} /\ result = NoResult

\* the run of scenario S6: {flag: false}, no fetch registered, no callback
S6_Run ==
    /\ routine = RoutineS6 /\ input = Bind(EmptyCtx, "flag", PyFalse)
    /\ registry = {} /\ ~auto_fix_fn
    /\ op = "run" /\ pc = "returned"

\* C10 (as stated): the run of S6 yields status = ok and output = "none".
C10_S6_Original ==
    S6_Run => (result.status = "ok" /\ result.output = OutValue(PyStr("none")))

\* C10 (as amended): in the run of S6 the guarded tool call is skipped (fetch
\* is not invoked, r is never written) and the return step, which refers to
\* the never-written slot r, fails with an undefined-reference error: the
\* run yields status = failed at the return step.
C10_S6 ==
    S6_Run =>
       /\ result.status = "failed"
       /\ result.failure.step_id = "s2"
       /\ result.failure.error_type = "UndefinedError"
       /\ bodyRuns[0] = 0 /\ invoked[0] = 0
       /\ ~Has(context, "r")

\* C10 witness: the run of S6 has returned
C10_Witness == S6_Run /\ bodyRuns[1] = 1

\* what the tool or the user function of call step st returns on context c
CallResult(st, c) ==
    IF st.type = "tool.call" THEN _exec_tool_call(st, c, registry).val
    ELSE _exec_udf_call(st, c).val

\* the context a successfully executed step st must leave, from context c
SaveAsContext(st, c) ==
    IF st.type \in {"tool.call", "udf.call"} /\ st.save_as # ""
    THEN Bind(c, st.save_as, CallResult(st, c))
    ELSE c

\* C11: save-as discipline.  After a successfully executed tool.call or
\* udf.call step with save_as = k the context maps k to the step's result
\* (the retry's result after a modify_args retry) and is otherwise as the
\* step found it; after a successful step without save_as and after a
\* successful assert step the context is unchanged.
C11_SaveAs ==
    [][/\ (pc = "loop" /\ pc' = "loop" /\ bodyRuns' # bodyRuns)
           => context' = SaveAsContext(routine[i + 1], context)
       /\ (pc = "apply" /\ pc' = "loop" /\ bodyRuns' # bodyRuns)
           => context' = SaveAsContext([routine[i + 1] EXCEPT !.args = fix.new_args], context)]_vars

\* C11 witness: a fetched result was bound to r, then a call without
\* save_as succeeded and left the context alone
C11_Witness ==
    /\ pc = "loop" /\ i = 2
    /\ routine[1].type = "tool.call" /\ routine[1].save_as = "r"
    /\ routine[2].type = "udf.call" /\ routine[2].save_as = ""
    /\ bodyRuns[0] = 1 /\ bodyRuns[1] = 1 /\ fixCalls[1] = 0
    /\ context["r"] = PyStr("data")

\* C12: ordering.  An invocation starts at index 0 (run) or at the
\* snapshot's step_index + 1 (resume); from there the index only moves
\* forward one step at a time, and only once the step at hand finished;
\* a step body runs only for the step at the current index; and no write
\* is lost on the way: the context changes only where the step at hand (or
\* the recovery callback called for it) writes, and no key is removed.
C12_Ordering ==
    [][/\ (pc = "idle" /\ pc' = "loop") => (i' = 0 /\ context' = input)
       /\ (pc = "returned" /\ pc' = "loop")
            => i' = StoreLoad(store, RunId).step_index + 1
       /\ (pc \in {"loop", "recover", "apply"})
            => /\ i' \in {i, i + 1}
               /\ (i' = i + 1) => (pc' = "loop" /\ pc \in {"loop", "apply"} /\ i < Len(routine))
               /\ \A j \in Indices :
                     bodyRuns'[j] # bodyRuns[j] => (j = i /\ bodyRuns'[j] = bodyRuns[j] + 1)
               /\ \A k \in Keys :
                     context'[k] # context[k]
                       => /\ context'[k] # Absent
                          /\ \/ k = routine[i + 1].save_as
                             \/ pc = "recover"]_vars

\* C12 witness: a resumed invocation started behind the prompt at index 0,
\* ran the step at index 1 and stands at index 2 with the answers in view
C12_Witness ==
    /\ op = "resume" /\ pc = "loop" /\ i = 2
    /\ routine[1].type = "prompt.user" /\ routine[1].save_as = "ans"
    /\ routine[2].type = "udf.call"
    /\ bodyRuns[0] = 1 /\ bodyRuns[1] = 1
    /\ context["ans"] # Absent

\* C13: resume_run with a run id for which the store holds no snapshot
\* returns status = failed with error kind StateNotFound, executes no step,
\* invokes no tool and leaves the state store (and the context) unchanged.
C13_StateNotFound ==
    [][(pc = "returned" /\ ~StoreHas(store, RunId) /\ routine' = routine)
       => /\ result'.status = "failed"
          /\ result'.failure.error_type = "StateNotFound"
          /\ result'.failure.step_id = ""
          /\ pc' = "returned" /\ op' = "resume"
          /\ UNCHANGED <<store, context, i, bodyRuns, invoked, fixCalls, answered>>]_vars

\* C13 witness: a run that never paused was resumed and got StateNotFound
C13_Witness ==
    /\ op = "resume" /\ pc = "returned"
    /\ result.status = "failed" /\ result.failure.error_type = "StateNotFound"
    /\ store = {} /\ \A j \in Indices : answered[j] = Absent
    /\ bodyRuns[0] = 1

\* some prompt before index n was answered by a resume
AnsweredBefore(n) == \E j \in Indices : j < n /\ answered[j] # Absent

\* C14: a snapshot is consumed by a successful resume.  While a resumed
\* execution runs its steps the store holds no snapshot for the run id;
\* when it ends ok or failed the store still holds none, and resuming the
\* same run id again reports StateNotFound; a snapshot is there afterwards
\* only if the resumed execution paused again at a later prompt.
C14_SnapshotConsumed ==
    /\ [](op = "resume" =>
            /\ (pc \in {"loop", "recover", "apply"} => ~StoreHas(store, RunId))
            /\ (FromSteps /\ result.status \in {"ok", "failed"} => ~StoreHas(store, RunId))
            /\ (FromSteps /\ StoreHas(store, RunId)
                  => /\ result.status = "needs_input"
                     /\ result.pending_prompt = StoreLoad(store, RunId).pending_step_id
                     /\ AnsweredBefore(StoreLoad(store, RunId).step_index)))
    /\ [][(op = "resume" /\ FromSteps /\ result.status \in {"ok", "failed"} /\ routine' = routine)
           => (result'.status = "failed" /\ result'.failure.error_type = "StateNotFound")]_vars

\* C14 witness: a prompt was answered, the resumed execution ended ok, and
\* a second resume of the same run id found no snapshot
C14_Witness ==
    /\ op = "resume" /\ pc = "returned" /\ store = {}
    /\ answered[0] # Absent
    /\ bodyRuns[1] = 1
    /\ result.failure.error_type = "StateNotFound"

\* the step the stored snapshot is pending at is gone from the loaded
\* routine, or the step with that id is not a prompt.user step
PendingNotPrompt ==
    /\ StoreHas(store, RunId)
    /\ LET pos == PendingPos(StoreLoad(store, RunId))
       IN pos = 0 \/ routine[pos].type # "prompt.user"

\* C15: resume_run reports InvalidState (status = failed, no step
\* executed) whenever the snapshot's pending step id does not occur in the
\* loaded routine or the step with that id is not a prompt.user step.
C15_InvalidState ==
    [][(pc = "returned" /\ PendingNotPrompt /\ routine' = routine)
       => /\ result'.status = "failed"
          /\ result'.failure.error_type = "InvalidState"
          /\ pc' = "returned"
          /\ UNCHANGED <<store, context, i, bodyRuns, invoked>>]_vars

\* the prompt.user step the stored snapshot is pending at
PendingStep == routine[PendingPos(StoreLoad(store, RunId))]
\* the context name answers to step st are bound under
AnswerKey(st) == IF st.save_as # "" THEN st.save_as ELSE "_prompt_answers"

\* C16: resume_run with answers that do not match the pending prompt
\* definition returns status = failed with a ValidationError for the
\* pending step and changes nothing: no answer is bound, no step runs, the
\* snapshot stays in the store as it was; a resume of the same run id with
\* valid answers, after any number of rejected ones, is accepted.
C16_ValidationRejected ==
    [][\A a \in AnswerSet :
          (pc = "returned" /\ StoreHas(store, RunId) /\ resume_run(RunId, a))
          => IF validate_against(a, PendingStep.prompt) # {}
             THEN /\ result'.status = "failed"
                  /\ result'.failure.error_type = "ValidationError"
                  /\ result'.failure.step_id = StoreLoad(store, RunId).pending_step_id
                  /\ result'.failure.message \in validate_against(a, PendingStep.prompt)
                  /\ pc' = "returned"
                  /\ UNCHANGED <<store, context, i, bodyRuns, invoked, fixCalls, answered>>
             ELSE /\ pc' = "loop"
                  /\ result' = NoResult
                  /\ answered'[StoreLoad(store, RunId).step_index] = DictValue(a)]_vars

\* C16 witness: answers were rejected, the snapshot is still there, and the
\* context is the one the run paused with
C16_Witness ==
    /\ op = "resume" /\ pc = "returned"
    /\ result.status = "failed" /\ result.failure.error_type = "ValidationError"
    /\ result.failure.message = "Field 'ok' must be a boolean"
    /\ StoreHas(store, RunId)
    /\ context = StoreLoad(store, RunId).context
    /\ \A j \in Indices : answered[j] = Absent

\* C17: on a successful resume the answers mapping is bound in the
\* restored context under the prompt step's save_as name, or under
\* _prompt_answers when it has none; every other key is as in the
\* snapshot; execution goes on behind the prompt, and the steps there see
\* the binding (a return of that name outputs the answers).
C17_AnswersBound ==
    /\ [][\A a \in AnswerSet :
             (pc = "returned" /\ StoreHas(store, RunId) /\ resume_run(RunId, a) /\ pc' = "loop")
             => /\ context'[AnswerKey(PendingStep)] = DictValue(a)
                /\ \A k \in Keys \ {AnswerKey(PendingStep)} :
                      context'[k] = StoreLoad(store, RunId).context[k]
                /\ i' = StoreLoad(store, RunId).step_index + 1]_vars
    /\ [](\A j \in Indices :
            (/\ op = "resume" /\ answered[j] # Absent /\ i > j
             /\ \A n \in Indices : n > j => answered[n] = Absent)
            => /\ pc \in {"loop", "recover", "apply"}
                    => context[AnswerKey(routine[j + 1])] = answered[j]
               /\ (/\ FromSteps /\ result.status = "ok" /\ i < Len(routine)
                   /\ routine[i + 1].value = Sole(AnswerKey(routine[j + 1])))
                    => result.output = OutValue(answered[j]))

\* C17 witness: answers bound under the reserved name, a later step ran
C17_Witness ==
    /\ op = "resume" /\ pc = "loop" /\ i = 2
    /\ routine[1].type = "prompt.user" /\ routine[1].save_as = ""
    /\ answered[0] = PyDict("{'ok': False}")
    /\ context["_prompt_answers"] = PyDict("{'ok': False}")
    /\ context["flag"] = PyTrue
    /\ bodyRuns[1] = 1

\* a result and a snapshot with the run id blanked: what two runs have in
\* common when only their run ids differ
SansRunId(r) == [r EXCEPT !.run_id = ""]

C19_ReturnTerminates ==
    /\ [][/\ (Dispatched /\ Body.kind = "return")
               => /\ pc' = "returned"
                  /\ result'.status = "ok"
                  /\ result'.output = OutValue(render_value(routine[i + 1].value, context).val)
                  /\ UNCHANGED <<store, context, i, invoked>>
          /\ (pc = "apply" /\ IsModifyArgs(fix) /\ RetryBody.kind = "return")
               => /\ pc' = "returned"
                  /\ result'.status = "ok"
                  /\ result'.output = OutValue(render_value(routine[i + 1].value, context).val)
                  /\ UNCHANGED <<store, context, i, invoked>>]_vars
    /\ []((pc = "returned" /\ i < Len(routine) /\ routine[i + 1].type = "return")
           => \A j \in Indices : j > i => (bodyRuns[j] = 0 /\ invoked[j] = 0 /\ fixCalls[j] = 0))

\* C19 witness: a return at index 0 ended the run ok with a step after it
\* that was never entered
C19_Witness ==
    /\ op = "run" /\ pc = "returned" /\ i = 0
    /\ Len(routine) = 2 /\ routine[1].type = "return" /\ routine[2].type = "udf.call"
    /\ result.status = "ok" /\ result.output = OutValue(PyStr("done"))
    /\ bodyRuns[0] = 1 /\ bodyRuns[1] = 0 /\ invoked[1] = 0 /\ store = {}

\* the message an assert step fails with
AssertMessage(st) ==
    IF st.message # "" THEN st.message ELSE "Assertion failed: " \o ExprText(st.check)

\* the check of assert step st evaluates, and evaluates falsy, on context c
CheckFalsy(st, c) ==
    st.type = "assert" /\ safe_eval(st.check, c).ok /\ ~Truthy(safe_eval(st.check, c).val)

\* C20: an assert step whose check evaluates falsy raises an
\* AssertionError carrying the step's message, or the stock message naming
\* the check when it has none; unless recovered, the run ends failed with
\* that message and the assert step's id.  A truthy check leaves the
\* context unchanged and the loop goes on with the next step.
C20_Assert ==
    [][/\ (Dispatched /\ CheckFalsy(routine[i + 1], context))
           => /\ pc' = "recover"
              /\ exc' = Exc("AssertionError", AssertMessage(routine[i + 1]))
              /\ context' = context /\ i' = i
       /\ (pc = "apply" /\ routine[i + 1].type = "assert" /\ exc.type = "AssertionError")
           => /\ (~IsSkip(fix) /\ ~IsModifyArgs(fix)) => pc' = "returned"
              /\ (pc' = "returned")
                   => /\ result'.status = "failed"
                      /\ result'.failure.step_id = routine[i + 1].id
                      /\ result'.failure.error_type = "AssertionError"
                      /\ result'.failure.message = AssertMessage(routine[i + 1])
       /\ (/\ Dispatched /\ routine[i + 1].type = "assert"
           /\ safe_eval(routine[i + 1].check, context).ok
           /\ Truthy(safe_eval(routine[i + 1].check, context).val))
           => /\ pc' = "loop" /\ i' = i + 1
              /\ UNCHANGED <<context, store, result>>]_vars

\* C20 witness: an assert without message failed the run with the stock
\* message, no recovery callback in play
C20_Witness ==
    /\ op = "run" /\ pc = "returned" /\ i = 0
    /\ routine[1].type = "assert" /\ routine[1].message = ""
    /\ ~auto_fix_fn
    /\ result.status = "failed" /\ result.failure.step_id = "s1"
    /\ result.failure.message = "Assertion failed: flag"

\* C21: every failed result produced by step execution carries the id of
\* the step at which execution stopped and a context snapshot, and that
\* snapshot is the context the earlier steps left: the step that raises
\* writes nothing, and nothing else writes between the raise and the
\* failed result.
C21_FailureSnapshot ==
    [][/\ (pc = "loop" /\ pc' = "recover") => context' = context
       /\ (pc = "recover" /\ pc' = "apply") => context' = context
       /\ (pc \in {"loop", "apply"} /\ pc' = "returned" /\ result'.status = "failed")
           => /\ result'.failure.step_id = routine[i + 1].id
              /\ result'.failure.context = context]_vars

\* C22: a `when` expression that raises ends the run at once with status
\* = failed, error kind ConditionError and that step's id; the step is not
\* dispatched, the recovery callback is not consulted, and no step behind
\* it is ever entered.
C22_ConditionError ==
    /\ [][(pc = "loop" /\ i < Len(routine) /\ routine[i + 1].when # NoExpr
            /\ ~safe_eval(routine[i + 1].when, context).ok)
           => /\ pc' = "returned"
              /\ result'.status = "failed"
              /\ result'.failure.error_type = "ConditionError"
              /\ result'.failure.step_id = routine[i + 1].id
              /\ UNCHANGED <<context, store, i, bodyRuns, fixCalls, invoked>>]_vars
    /\ []((FromSteps /\ result.failure.error_type = "ConditionError")
           => \A j \in Indices : j >= i => (bodyRuns[j] = 0 /\ fixCalls[j] = 0 /\ invoked[j] = 0))

\* C22 witness: a guard on a name the input does not bind failed a run
\* that was started with a recovery callback
C22_Witness ==
    /\ op = "run" /\ pc = "returned" /\ i = 1 /\ auto_fix_fn
    /\ bodyRuns[0] = 1 /\ bodyRuns[1] = 0 /\ fixCalls[1] = 0
    /\ result.status = "failed" /\ result.failure.error_type = "ConditionError"
    /\ result.failure.step_id = "s2"
    /\ result.failure.message = "Error evaluating 'when' condition: Undefined variable: flag"

(***************************************************************************)
(* The state stores on their own (runner/state_store.py): any sequence of  *)
(* save / load / delete on an InMemoryStateStore (`store`) and on a        *)
(* FileStateStore (`disk`), for two run ids.                               *)
(***************************************************************************)
\* the engine's variables while a component is exercised on its own
EngineOff ==
    /\ pkgState = "ok" /\ routine = <<>> /\ input = EmptyCtx /\ registry = {}
    /\ auto_fix_fn = FALSE /\ pc = "idle" /\ op = "none" /\ i = 0
    /\ use_fix = FALSE /\ exc = NoExc /\ fix = NoFix /\ result = NoResult
    /\ bodyRuns = [j \in Indices |-> 0] /\ fixCalls = [j \in Indices |-> 0]
    /\ invoked = [j \in Indices |-> 0] /\ answered = [j \in Indices |-> Absent]
    /\ fixLog = [j \in Indices |-> NoFix]
engine == <<package, history, pc, op, i, use_fix, exc, fix, result>>

RunIds == {"r1", "r2"}
\* load's None
NoState == [run_id |-> ""]
\* RunState(run_id, routine_dir, step_index, context, pending_step_id)
RunStateIn(routine_dir, run_id, step_index, c, pending_step_id) ==
    [run_id |-> run_id, routine_dir |-> routine_dir, step_index |-> step_index,
     context |-> c, pending_step_id |-> pending_step_id]
\* the states that are saved: values that differ only in their JSON type
StoreContexts ==
    { Bind(EmptyCtx, "flag", PyTrue),
      Bind(Bind(EmptyCtx, "r", PyInt("1")), "ans", PyStr("1")),
      Bind(Bind(EmptyCtx, "r", PyFloat("1.0")), "ans", PyNone) }
StoreStates ==
    { RunStateIn("/routines/a", r, n, c, StepId(n)) : r \in RunIds, n \in {0, 1}, c \in StoreContexts }

\* InMemoryStateStore.load: self._states.get(run_id)
InMemoryStateStore_load(st, run_id) ==
    IF StoreHas(st, run_id) THEN Ok(StoreLoad(st, run_id)) ELSE Ok(NoState)

\* json.dump / json.load of one Value: a JSON text is a literal, a number
\* or a string; a number with a fraction part is read back as a float
JsonText(syn, text) == [syn |-> syn, text |-> text]
NoText == JsonText("", "")
FloatLiterals == {"0.0", "1.0", "2.0", "2.5", "5.0"}
json_dump(v) ==
    CASE v = Absent -> NoText
      [] v.t = "null" -> JsonText("lit", "null")
      [] v.t = "bool" -> JsonText("lit", IF v.s = "True" THEN "true" ELSE "false")
      [] v.t \in {"int", "float"} -> JsonText("num", v.s)
      [] OTHER -> JsonText("str", v.s)
\* a reader that takes every number for an integer
json_load_AllInts(t) ==
    CASE t = NoText -> Absent
      [] t.syn = "lit" /\ t.text = "null" -> PyNone
      [] t.syn = "lit" -> (IF t.text = "true" THEN PyTrue ELSE PyFalse)
      [] t.syn = "num" -> PyInt(t.text)
      [] OTHER -> PyStr(t.text)
json_load(t) ==
    CASE t = NoText -> Absent
      [] t.syn = "lit" /\ t.text = "null" -> PyNone
      [] t.syn = "lit" -> (IF t.text = "true" THEN PyTrue ELSE PyFalse)
      [] t.syn = "num" -> (IF t.text \in FloatLiterals THEN PyFloat(t.text) ELSE PyInt(t.text))
      [] OTHER -> PyStr(t.text)
\* json.dump(state.to_dict(), f): the document written for a state
to_dict(state) ==
    [run_id |-> JsonText("str", state.run_id),
     routine_dir |-> JsonText("str", state.routine_dir),
     step_index |-> JsonText("num", IF state.step_index = 0 THEN "0" ELSE "1"),
     context |-> [k \in Keys |-> json_dump(state.context[k])],
     pending_step_id |-> JsonText("str", state.pending_step_id)]
\* RunState.from_dict(json.load(f))
from_dict(doc) ==
    RunStateIn(doc.routine_dir.text, doc.run_id.text,
               IF doc.step_index.text = "0" THEN 0 ELSE 1,
               [k \in Keys |-> json_load(doc.context[k])], doc.pending_step_id.text)

\* a file: the document being written and how much of it is on disk
File(doc, size) == [doc |-> doc, size |-> size]
NoFile == File(<<>>, "missing")
_path(run_id) == run_id \o ".json"
Paths == {_path(r) : r \in RunIds}
\* the contents the file passes through while save runs: open(path, "w")
\* truncates it, json.dump writes the document chunk by chunk
WriteStages(prior, doc) == <<prior, File(doc, "empty"), File(doc, "part"), File(doc, "all")>>
FileStateStore_save(d, state) ==
    [d EXCEPT ![_path(state.run_id)] = WriteStages(@, to_dict(state))[4]]
FileStateStore_load(d, run_id) ==
    LET f == d[_path(run_id)]
    IN IF f = NoFile THEN Ok(NoState)
       ELSE IF f.size # "all" THEN Err("JSONDecodeError", "Expecting value")
       ELSE Ok(from_dict(f.doc))
FileStateStore_delete(d, run_id) == [d EXCEPT ![_path(run_id)] = NoFile]

StoreKinds == {"memory", "file"}
Called(name, kind, run_id, out) == [op |-> name, store |-> kind, run_id |-> run_id, out |-> out]
Load(kind, st, d, run_id) ==
    IF kind = "memory" THEN InMemoryStateStore_load(st, run_id) ELSE FileStateStore_load(d, run_id)

StoreInit ==
    /\ EngineOff /\ context = EmptyCtx /\ heap = <<>>
    /\ store = {}
    /\ disk = [q \in Paths |-> NoFile]
    /\ saved = [k \in StoreKinds |-> [r \in RunIds |-> {NoState}]]
    /\ arg = <<>> /\ ret = <<>>

save(kind, state) ==
    /\ IF kind = "memory"
       THEN store' = StoreSave(store, state) /\ UNCHANGED disk
       ELSE disk' = FileStateStore_save(disk, state) /\ UNCHANGED store
    /\ saved' = [saved EXCEPT ![kind][state.run_id] = {state}]
    /\ arg' = state
    /\ ret' = Called("save", kind, state.run_id, Ok(PyNone))
    /\ UNCHANGED <<engine, context, heap>>

load(kind, run_id) ==
    /\ arg' = run_id
    /\ ret' = Called("load", kind, run_id, Load(kind, store, disk, run_id))
    /\ UNCHANGED <<engine, context, heap, store, disk, saved>>

delete(kind, run_id) ==
    /\ IF kind = "memory"
       THEN store' = StoreDelete(store, run_id) /\ UNCHANGED disk
       ELSE disk' = FileStateStore_delete(disk, run_id) /\ UNCHANGED store
    /\ saved' = [saved EXCEPT ![kind][run_id] = {NoState}]
    /\ arg' = run_id
    /\ ret' = Called("delete", kind, run_id, Ok(PyNone))
    /\ UNCHANGED <<engine, context, heap>>

StoreNext ==
    \/ \E kind \in StoreKinds, state \in StoreStates : save(kind, state)
    \/ \E kind \in StoreKinds, run_id \in RunIds : load(kind, run_id)
    \/ \E kind \in StoreKinds, run_id \in RunIds : delete(kind, run_id)

SpecStore == StoreInit /\ [][StoreNext]_vars

\* the process dies inside FileStateStore.save(state): the file is left at
\* one of the contents it passes through, and the in-process store is gone.
\* (Explored for a run id whose last save or delete completed.)
crash_in_save(state) ==
    /\ Cardinality(saved["file"][state.run_id]) = 1
    /\ \E n \in 1..4 :
         disk' = [disk EXCEPT ![_path(state.run_id)] = WriteStages(@, to_dict(state))[n]]
    /\ store' = {}
    /\ saved' = [k \in StoreKinds |->
                   IF k = "memory" THEN [r \in RunIds |-> {NoState}]
                   ELSE [saved[k] EXCEPT ![state.run_id] = @ \cup {state}]]
    /\ arg' = state
    /\ ret' = Called("crash", "file", state.run_id, Err("Killed", ""))
    /\ UNCHANGED <<engine, context, heap>>

\* the file store across process deaths
CrashNext ==
    \/ \E state \in StoreStates : save("file", state)
    \/ \E run_id \in RunIds : load("file", run_id)
    \/ \E run_id \in RunIds : delete("file", run_id)
    \/ \E state \in StoreStates : crash_in_save(state)

SpecCrash == StoreInit /\ [][CrashNext]_vars

\* C23: the file store replaces a snapshot atomically: whenever the process
\* died inside save(state), a load of that run id sees the complete prior
\* snapshot (or absence) or the complete new one, never an empty, truncated
\* or partially written file.
C23_AtomicReplace ==
    \A r \in RunIds :
        /\ disk[_path(r)] = NoFile \/ disk[_path(r)].size = "all"
        /\ FileStateStore_load(disk, r).ok
        /\ FileStateStore_load(disk, r).val \in saved["file"][r]

\* C24: for both stores and any sequence of save / load / delete: load(r)
\* returns a state equal, field by field, to the state most recently saved
\* for r if r was saved and not deleted since, and None otherwise; deleting
\* an absent run id changes nothing and raises nothing; an operation on one
\* run id of one store never changes what load returns for another.
C24_StoreContract ==
    /\ []((ret # <<>> /\ ret.op = "load")
          => /\ ret.out.ok
             /\ saved[ret.store][ret.run_id] = {ret.out.val})
    /\ [][/\ \A k \in StoreKinds, r \in RunIds :
                (ret' = Called("delete", k, r, ret'.out) /\ Load(k, store, disk, r) = Ok(NoState))
                => (ret'.out.ok /\ UNCHANGED <<store, disk>>)
          /\ \A k \in StoreKinds, r \in RunIds :
                Load(k, store', disk', r) # Load(k, store, disk, r)
                => (ret'.store = k /\ ret'.run_id = r /\ ret'.op \in {"save", "delete"})]_vars

\* C24 witness: the file store returned the second state saved for r1, a
\* float in its context, while r2 was saved, deleted and is absent in it and
\* the memory store holds another state for r1
C24_Witness ==
    /\ ret # <<>> /\ ret.op = "load" /\ ret.store = "file" /\ ret.run_id = "r1"
    /\ ret.out.ok /\ ret.out.val # NoState
    /\ ret.out.val.context["r"] = PyFloat("1.0") /\ ret.out.val.step_index = 1
    /\ disk[_path("r2")] = NoFile
    /\ StoreHas(store, "r1") /\ StoreLoad(store, "r1").context["r"] = PyInt("1")

(***************************************************************************)
(* The pause snapshot and object sharing (engine.py:263-277 with the       *)
(* InMemoryStateStore).  Mappings and lists are objects of `heap`; a cell  *)
(* of a mapping holds a scalar Value or a reference to a list object.      *)
(* `context` is the reference of the engine's context mapping.             *)
(***************************************************************************)
Ref(o) == Val("ref", o)
\* dict(context): a new mapping object with the same cells
dict(h, o, new) == [h EXCEPT ![new] = h[o]]
\* the Value a mapping object stands for: every reference followed
Deep(h, o) == [k \in Keys |-> IF h[o][k].t = "ref" THEN Val("list", h[h[o][k].s]) ELSE h[o][k]]
Items == {PyInt("1"), PyInt("2")}
Objects == {"context", "state.context", "result.context", "list"}

ShareInit ==
    /\ EngineOff /\ disk = <<>> /\ saved = <<>> /\ arg = <<>> /\ ret = <<>>
    /\ store = {}
    /\ context = Ref("context")
    /\ \E r \in {Absent, PyInt("1"), Ref("list")}, f \in {Absent, PyTrue}, l \in {<<>>, <<PyInt("1")>>} :
          heap = [o \in Objects |->
                    CASE o = "context" -> Bind(Bind(EmptyCtx, "r", r), "flag", f)
                      [] o = "list" -> l
                      [] OTHER -> EmptyCtx]

\* _run_step at a prompt.user step: save RunState(context=dict(context)),
\* return RunResult(needs_input, context=dict(context))
prompt_user ==
    /\ ret = <<>>
    /\ heap' = dict(dict(heap, context.s, "state.context"), context.s, "result.context")
    /\ store' = StoreSave(store, RunStateIn("/routines/a", RunId, 0, Ref("state.context"), "s1"))
    /\ ret' = RunResult(RunId, "needs_input", OutValue(PyNone), NoFailure, "s1", Ref("result.context"))
    /\ UNCHANGED <<engine, context, disk, saved, arg>>

\* m[k] = v on a mapping the engine or its caller holds
setitem(m, k, v) ==
    /\ m = "result.context" => ret # <<>>
    /\ heap' = [heap EXCEPT ![m][k] = v]
    /\ UNCHANGED <<engine, context, store, disk, saved, arg, ret>>

\* m[k].append(v) on a list reached through such a mapping
append(m, k, v) ==
    /\ m = "result.context" => ret # <<>>
    /\ heap[m][k].t = "ref"
    /\ Len(heap[heap[m][k].s]) < MaxItems
    /\ heap' = [heap EXCEPT ![heap[m][k].s] = Append(@, v)]
    /\ UNCHANGED <<engine, context, store, disk, saved, arg, ret>>

ShareNext ==
    \/ prompt_user
    \/ \E m \in {"context", "result.context"}, k \in {"r", "ans"}, v \in Items \cup {Ref("list")} :
          setitem(m, k, v)
    \/ \E m \in {"context", "result.context"}, k \in {"r", "ans"}, v \in Items : append(m, k, v)

SpecShare == ShareInit /\ [][ShareNext]_vars

\* C25: the snapshot saved at a prompt.user step is a deep copy of the
\* context: once it is stored, no mutation of the engine's context, of a
\* list or mapping reachable from it, or of the context returned in the
\* RunResult changes the context the stored snapshot holds.
C25_SnapshotIsolation ==
    [][(StoreHas(store, RunId) /\ store' = store)
       => Deep(heap', StoreLoad(store, RunId).context.s)
          = Deep(heap, StoreLoad(store, RunId).context.s)]_vars

(***************************************************************************)
(* The tool registry on its own (runner/tools.py), with schemas.  A call   *)
(* is traced: `did` lists what ToolRegistry.call got to do.                *)
(***************************************************************************)
\* the schemas that are registered: None, {}, an object with a required
\* string property `name`, and a string
Schemas == {"None", "{}", "name: string", "string"}
\* validate_json(instance, schema): the error messages of Draft7Validator
validate_json(instance, schema) ==
    CASE schema = "name: string" ->
            IF "name" \notin DOMAIN instance THEN <<"'name' is a required property">>
            ELSE IF instance["name"].t # "str"
                 THEN <<Repr(instance["name"]) \o " is not of type 'string'">>
            ELSE <<>>
      [] schema = "string" ->
            IF instance.t # "str" THEN <<Repr(instance) \o " is not of type 'string'">> ELSE <<>>
      [] OTHER -> <<>>
\* `if entry.args_schema:` -- None and the empty schema are not applied
Applies(schema) == schema \notin {"None", "{}"}

\* the callables that are registered, each taking one keyword `name`
Fns == {"greet", "count", "boom"}
Invoke(fn, args) ==
    IF DOMAIN args # {"name"} THEN Err("TypeError", fn \o "() got unexpected arguments")
    ELSE CASE fn = "greet" -> Ok(PyStr("hi " \o args["name"].s))
           [] fn = "count" -> Ok(PyInt("5"))
           [] OTHER -> Err("RuntimeError", "boom")

_ToolEntry(fn, args_schema, result_schema) ==
    [fn |-> fn, args_schema |-> args_schema, result_schema |-> result_schema]
Traced(out, did) == [out |-> out, did |-> did]

\* a call that invokes the callable before it validates the arguments
call_InvokesFirst(tools, name, args) ==
    IF name \notin DOMAIN tools
    THEN Traced(Err("KeyError", "Tool not registered: " \o name), <<"lookup">>)
    ELSE LET entry == tools[name]
             returned == Invoke(entry.fn, args)
         IN IF Applies(entry.args_schema) /\ validate_json(args, entry.args_schema) # <<>>
            THEN Traced(Err("ValueError", "Tool '" \o name \o "' args validation failed"),
                        <<"lookup", "invoke", "validate args">>)
            ELSE Traced(returned, <<"lookup", "invoke">>)

\* ToolRegistry.call(name, args)
call(tools, name, args) ==
    IF name \notin DOMAIN tools
    THEN Traced(Err("KeyError", "Tool not registered: " \o name), <<"lookup">>)
    ELSE LET entry == tools[name]
             checked == IF Applies(entry.args_schema) THEN <<"lookup", "validate args">>
                        ELSE <<"lookup">>
             returned == Invoke(entry.fn, args)
         IN IF Applies(entry.args_schema) /\ validate_json(args, entry.args_schema) # <<>>
            THEN Traced(Err("ValueError", "Tool '" \o name \o "' args validation failed"), checked)
            ELSE IF ~returned.ok THEN Traced(returned, checked \o <<"invoke">>)
            ELSE IF Applies(entry.result_schema)
                    /\ validate_json(returned.val, entry.result_schema) # <<>>
                 THEN Traced(Err("ValueError", "Tool '" \o name \o "' result validation failed"),
                             checked \o <<"invoke", "validate result">>)
            ELSE Traced(returned, checked \o <<"invoke">>
                                \o (IF Applies(entry.result_schema) THEN <<"validate result">> ELSE <<>>))

\* the calls that are made: one registered tool, a known or unknown name,
\* fitting and unfitting arguments
ToolArgs == { [name |-> PyStr("Alice")], [name |-> PyInt("123")], <<>> }
ToolCalls ==
    { [tools |-> [n \in {"greet"} |-> _ToolEntry(fn, a, r)], name |-> name, args |-> args] :
        fn \in Fns, a \in Schemas \ {"string"}, r \in Schemas \ {"name: string"},
        name \in {"greet", "nope"}, args \in ToolArgs }

ToolsInit ==
    /\ EngineOff /\ context = EmptyCtx /\ store = {}
    /\ disk = <<>> /\ heap = <<>> /\ saved = <<>>
    /\ arg \in ToolCalls
    /\ ret = <<>>

ToolRegistry_call_ ==
    /\ ret = <<>>
    /\ ret' = call(arg.tools, arg.name, arg.args)
    /\ UNCHANGED <<engine, context, store, disk, heap, saved, arg>>

SpecTools == ToolsInit /\ [][ToolRegistry_call_]_vars

IsPrefix(a, b) == Len(a) <= Len(b) /\ SubSeq(b, 1, Len(a)) = a
Did(what) == \E n \in 1..Len(ret.did) : ret.did[n] = what

\* C26: ToolRegistry.call(name, args) looks up, validates the arguments,
\* invokes and validates the result, in that order: an unknown name raises
\* KeyError and invokes nothing; arguments failing a registered args_schema
\* raise and the callable is never invoked; a result is returned only when
\* it passes the registered result_schema, otherwise an error is raised; an
\* exception of the callable propagates.
C26_CallOrder ==
    ret # <<>> =>
      LET entry == arg.tools[arg.name]
          known == arg.name \in DOMAIN arg.tools
          bad_args == Applies(entry.args_schema) /\ validate_json(arg.args, entry.args_schema) # <<>>
          called == Invoke(entry.fn, arg.args)
          bad_result == called.ok /\ Applies(entry.result_schema)
                        /\ validate_json(called.val, entry.result_schema) # <<>>
      IN /\ \/ IsPrefix(ret.did, <<"lookup", "validate args", "invoke", "validate result">>)
            \/ IsPrefix(ret.did, <<"lookup", "invoke", "validate result">>)
         /\ ~known => (ret.out.exc.type = "KeyError" /\ ~Did("invoke"))
         /\ (known /\ bad_args) => (ret.out.exc.type = "ValueError" /\ ~Did("invoke"))
         /\ (known /\ ~bad_args) => Did("invoke")
         /\ (known /\ ~bad_args /\ ~called.ok) => ret.out = called
         /\ (known /\ ~bad_args /\ bad_result) => (~ret.out.ok /\ ret.out.exc.type = "ValueError")
         /\ ret.out.ok => (known /\ ~bad_args /\ ~bad_result /\ ret.out = called)

\* C26 witness: one call each was refused for its arguments, refused for
\* its result -- here the arguments passed their schema and the callable
\* ran --, and returned after both validations
C26_Witness ==
    /\ ret # <<>> /\ arg.name = "greet"
    /\ arg.tools["greet"] = _ToolEntry("count", "name: string", "string")
    /\ arg.args = [name |-> PyStr("Alice")]
    /\ ret.did = <<"lookup", "validate args", "invoke", "validate result">>
    /\ ret.out.exc = Exc("ValueError", "Tool 'greet' result validation failed")

(***************************************************************************)
(* The value renderer and the safe evaluator on their own                  *)
(* (runner/templating.py, runner/eval.py): one call on a value tree or an  *)
(* expression and a context.                                               *)
(***************************************************************************)
RenderNames == {"r", "flag", "nope", "range", "udf"}
RenderContexts ==
    { EmptyCtx,
      Bind(EmptyCtx, "r", PyInt("42")),
      Bind(EmptyCtx, "r", Val("list", "[{'a': 1}, {'b': 2}]")),
      Bind(EmptyCtx, "r", PyDict("{'a': 1}")),
      Bind(Bind(EmptyCtx, "r", PyStr("World")), "flag", PyTrue) }
Leaves ==
    {Plain(PyInt("42")), Plain(PyNone), Plain(PyStr("hello"))}
    \cup {Sole(n) : n \in RenderNames}
    \cup {Interp("Hello ", n) : n \in RenderNames}
    \cup {OrElse(n, "none") : n \in RenderNames}
\* a value tree: a leaf, a mapping of leaves or a list of leaves
Tree(shape, of) == [shape |-> shape, of |-> of]
Trees ==
    {Tree("leaf", t) : t \in Leaves}
    \cup {Tree("dict", [url |-> t]) : t \in Leaves}
    \cup {Tree("list", <<t, Sole("r")>>) : t \in Leaves}
\* render_value on a value tree
render_tree(value, c) ==
    IF value.shape = "leaf" THEN render_value(value.of, c) ELSE RenderArgs(value.of, c)
Exprs ==
    {Const(PyInt("42"))} \cup {Name(n) : n \in RenderNames}
    \cup {EqNC(n, PyInt("42")) : n \in RenderNames}

RenderInit ==
    /\ EngineOff /\ context = EmptyCtx /\ store = {}
    /\ disk = <<>> /\ heap = <<>> /\ saved = <<>>
    /\ arg \in {[fn |-> "render_value", value |-> v, context |-> c] : v \in Trees, c \in RenderContexts}
              \cup {[fn |-> "safe_eval", value |-> e, context |-> c] : e \in Exprs, c \in RenderContexts}
    /\ ret = <<>>

render ==
    /\ ret = <<>> /\ arg.fn = "render_value"
    /\ ret' = render_tree(arg.value, arg.context)
    /\ UNCHANGED <<engine, context, store, disk, heap, saved, arg>>

evaluate ==
    /\ ret = <<>> /\ arg.fn = "safe_eval"
    /\ ret' = safe_eval(arg.value, arg.context)
    /\ UNCHANGED <<engine, context, store, disk, heap, saved, arg>>

RenderNext ==
    \/ render
    \/ evaluate

SpecRender == RenderInit /\ [][RenderNext]_vars

\* what raw passthrough asks of one rendered leaf
PassedThrough(t, c, out) ==
    /\ (t.k = "sole" /\ Has(c, t.name)) => out = c[t.name]
    /\ t.k = "plain" => out = t.v

\* C27: render_value("{{ x }}", {x: v}) returns exactly v with its type
\* (lists and mappings are not stringified); a mapping or list is rendered
\* element by element in this way, and non-string leaves and strings
\* without {{ }} come back unchanged.
C27_RawPassthrough ==
    (ret # <<>> /\ arg.fn = "render_value") =>
        IF arg.value.shape = "leaf"
        THEN (arg.value.of.k = "plain" \/ (arg.value.of.k = "sole" /\ Has(arg.context, arg.value.of.name)))
             => (ret.ok /\ PassedThrough(arg.value.of, arg.context, ret.val))
        ELSE ret.ok => /\ DOMAIN ret.val = DOMAIN arg.value.of
                       /\ \A p \in DOMAIN arg.value.of :
                            PassedThrough(arg.value.of[p], arg.context, ret.val[p])

\* C27 witness: a list of two placeholders was rendered to the list of the
\* two raw values, a list object among them
C27_Witness ==
    /\ ret # <<>> /\ arg.fn = "render_value" /\ arg.value = Tree("list", <<Sole("r"), Sole("r")>>)
    /\ ret.ok /\ ret.val[1] = Val("list", "[{'a': 1}, {'b': 2}]") /\ ret.val[2] = ret.val[1]

\* the names a call refers to
Referred ==
    IF arg.fn = "safe_eval"
    THEN (IF arg.value.k \in {"name", "eq"} THEN {arg.value.name} ELSE {})
    ELSE LET leaves == IF arg.value.shape = "leaf" THEN {arg.value.of}
                       ELSE {arg.value.of[p] : p \in DOMAIN arg.value.of}
         IN {t.name : t \in {l \in leaves : l.k # "plain"}}

\* C28: for every name that is not a key of the context, render_value of a
\* template referring to it (sole placeholder or interpolation) raises and
\* safe_eval of an expression referring to it raises; no empty or default
\* value is substituted and no implicit global namespace resolves the name.
\* (`udf`, the namespace render_value itself hands to a template, is not
\* counted as a missing name.)
C28_UndefinedReference ==
    (ret # <<>> /\ \E n \in Referred \ {"udf"} : ~Has(arg.context, n))
    => (~ret.ok /\ ret.exc.type \in {"UndefinedError", "NameError"})

(***************************************************************************)
(* The trace compiler (compiler/compile_trace.py).  `arg` is the Trace,    *)
(* `ret` the locals of compile_trace while it walks the events and the     *)
(* routine it returns.  None is PyNone for the optional fields of a trace. *)
(***************************************************************************)
TraceEvent(type, tool, function, args, recorded, prompt) ==
    [type |-> type, tool |-> tool, function |-> function, args |-> args,
     result |-> recorded, prompt |-> prompt]
\* the recorded events: arguments equal to an input field, to an earlier
\* result, to nothing, and values that differ only in their type
EventPool ==
    { TraceEvent("tool_call", PyStr("fetch"), PyNone, [url |-> PyStr("http://x")], PyStr("data"), PyNone),
      TraceEvent("tool_call", PyStr("fetch"), PyNone, [url |-> PyStr("data")], PyNone, PyNone),
      TraceEvent("tool_call", PyNone, PyNone, [n |-> PyInt("1")], PyStr("1"), PyNone),
      TraceEvent("udf_call", PyNone, PyStr("parse"), [raw |-> PyStr("data")], Val("list", "[1]"), PyNone),
      TraceEvent("udf_call", PyNone, PyNone, [rows |-> Val("list", "[1]"), n |-> PyStr("1")], PyInt("1"), PyNone),
      TraceEvent("udf_call", PyNone, PyStr("summarize"), [rows |-> PyStr("[1]")], PyStr("data"), PyNone),
      TraceEvent("approval", PyNone, PyNone, <<>>, PyNone, PyStr("ok?")),
      TraceEvent("approval", PyNone, PyNone, <<>>, PyNone, PyNone) }
\* Trace(mission.input_summary, events, final_output)
Traces ==
    { [input_summary |-> m, events |-> ev, final_output |-> out] :
        m \in {<<>>, [url |-> PyStr("http://x")], [url |-> PyStr("http://x"), n |-> PyInt("1")],
               [x \in {"out-dir"} |-> PyStr("data")]},
        ev \in UNION {[1..n -> EventPool] : n \in 0..MaxEvents},
        out \in {PyNone, PyStr("data")} }

\* a key that forgets what kind of JSON text it is
_json_key_Untyped(value) == JsonText("", value.s)
\* json.dumps(value, sort_keys=True, default=str)
_json_key(value) ==
    IF value.t \in {"list", "dict"} THEN JsonText(value.t, value.s) ELSE json_dump(value)

\* result_map[key] = name
Put(m, key, name) == [x \in DOMAIN m \cup {key} |-> IF x = key THEN name ELSE m[x]]
\* the seed: every input field in the order of the mapping
RECURSIVE Seed(_, _, _)
Seed(m, input_summary, todo) ==
    IF todo = <<>> THEN m
    ELSE Seed(Put(m, _json_key(input_summary[Head(todo)]), Head(todo)), input_summary, Tail(todo))
FieldOrder(input_summary) ==
    IF DOMAIN input_summary = {"url", "n"} THEN <<"url", "n">>
    ELSE IF DOMAIN input_summary = {"url"} THEN <<"url">>
    ELSE IF DOMAIN input_summary = {"out-dir"} THEN <<"out-dir">> ELSE <<>>

_templatize_args(args, result_map) ==
    [key \in DOMAIN args |->
        IF _json_key(args[key]) \in DOMAIN result_map
        THEN Sole(result_map[_json_key(args[key])])
        ELSE Plain(args[key])]

\* the label handed to PromptField without the fallback
PromptLabel_Raw(event) == event.prompt
\* event.prompt or "Proceed?"
PromptLabel(event) == IF Truthy(event.prompt) THEN event.prompt ELSE PyStr("Proceed?")
PromptMessage(event) == IF Truthy(event.prompt) THEN event.prompt ELSE PyStr("Please confirm")

\* the Step compile_trace appends for the event numbered n
CompiledStep(event, n, result_map) ==
    LET step_id == StepId(n - 1)
        made ==
          CASE event.type = "tool_call" ->
                 ToolCall(IF event.tool = PyNone THEN "" ELSE event.tool.s,
                          _templatize_args(event.args, result_map), "result_" \o step_id, NoExpr)
            [] event.type = "udf_call" ->
                 [ToolCall("", _templatize_args(event.args, result_map), "result_" \o step_id, NoExpr)
                    EXCEPT !.type = "udf.call",
                           !.function = IF Truthy(event.function) THEN event.function.s
                                        ELSE <<"udf_1", "udf_2", "udf_3", "udf_4", "udf_5", "udf_6">>[n]]
            [] OTHER ->
                 PromptUser([message |-> PromptMessage(event),
                             fields |-> <<[name |-> PyStr("confirm"), label |-> PromptLabel(event),
                                          type |-> "confirm", default |-> PyTrue]>>],
                            "approval_" \o step_id, NoExpr)
    IN [made EXCEPT !.id = step_id]

\* pydantic validation of a constructed Step: the required strings
ValidStep(st) ==
    /\ st.id # "" /\ st.type \in {"tool.call", "udf.call", "assert", "prompt.user", "return"}
    /\ st.prompt # NoPrompt =>
          /\ st.prompt.message.t = "str"
          /\ \A f \in 1..Len(st.prompt.fields) :
                st.prompt.fields[f].name.t = "str" /\ st.prompt.fields[f].label.t = "str"

Locals(at, n, steps, tools, udf_names, result_map, e) ==
    [at |-> at, step_counter |-> n, steps |-> steps, tools |-> tools, udf_names |-> udf_names,
     result_map |-> result_map, exc |-> e]

CompileInit ==
    /\ EngineOff /\ context = EmptyCtx /\ store = {}
    /\ disk = <<>> /\ heap = <<>> /\ saved = <<>>
    /\ arg \in Traces
    /\ ret = <<>>

\* compile_trace entered: the locals, result_map seeded from the input
compile_trace ==
    /\ ret = <<>>
    /\ ret' = Locals("events", 0, <<>>, <<>>, <<>>,
                     Seed(<<>>, arg.input_summary, FieldOrder(arg.input_summary)), NoExc)
    /\ UNCHANGED <<engine, context, store, disk, heap, saved, arg>>

\* one iteration of `for event in trace.events`
compile_event ==
    /\ ret # <<>> /\ ret.at = "events" /\ ret.step_counter < Len(arg.events)
    /\ LET n == ret.step_counter + 1
           event == arg.events[n]
           made == CompiledStep(event, n, ret.result_map)
           known(names, name) == \E q \in 1..Len(names) : names[q] = name
       IN IF ~ValidStep(made)
          THEN ret' = [ret EXCEPT !.at = "raised", !.step_counter = n,
                                  !.exc = Exc("ValidationError", "Input should be a valid string")]
          ELSE ret' = [ret EXCEPT
                  !.step_counter = n,
                  !.steps = Append(@, made),
                  !.tools = IF event.type = "tool_call" /\ Truthy(event.tool)
                               /\ ~known(@, event.tool.s)
                            THEN Append(@, event.tool.s) ELSE @,
                  !.udf_names = IF event.type = "udf_call" /\ ~known(@, made.function)
                                THEN Append(@, made.function) ELSE @,
                  !.result_map = IF event.type # "approval" /\ event.result # PyNone
                                 THEN Put(@, _json_key(event.result), made.save_as) ELSE @]
    /\ UNCHANGED <<engine, context, store, disk, heap, saved, arg>>

\* after the loop: the return step, then Routine(...) is returned
compile_return ==
    /\ ret # <<>> /\ ret.at = "events" /\ ret.step_counter = Len(arg.events)
    /\ LET last_save == IF ret.steps = <<>> THEN "" ELSE ret.steps[Len(ret.steps)].save_as
       IN ret' = [ret EXCEPT
                    !.at = "returned",
                    !.steps = IF arg.final_output # PyNone /\ last_save # ""
                              THEN Append(@, [ReturnStep(Sole(last_save), NoExpr)
                                                EXCEPT !.id = StepId(ret.step_counter)])
                              ELSE @]
    /\ UNCHANGED <<engine, context, store, disk, heap, saved, arg>>

CompileNext ==
    \/ compile_trace
    \/ compile_event
    \/ compile_return

SpecCompile == CompileInit /\ [][CompileNext]_vars
SpecCompileFair == SpecCompile /\ WF_vars(CompileNext)

\* the names an argument value matches: the save slots of the earlier
\* events that recorded a result equal to it, and the input fields equal
\* to it
Matches(v, n) ==
    {"result_" \o StepId(q - 1) : q \in {x \in 1..(n - 1) :
          arg.events[x].type # "approval" /\ arg.events[x].result # PyNone
          /\ arg.events[x].result = v}}
    \cup {k \in DOMAIN arg.input_summary : arg.input_summary[k] = v}

\* C29: for every tool_call or udf_call event and every argument of it
\* whose value is structurally equal to the recorded result of an earlier
\* event or to a field of mission.input_summary, the compiled step's
\* argument is the string {{ name }}, name being that earlier step's save
\* slot or the input field's name; an argument with no such match is kept
\* literally.
C29_Templatization ==
    (ret # <<>> /\ ret.at # "raised") =>
      \A n \in 1..ret.step_counter :
        arg.events[n].type # "approval" =>
          /\ DOMAIN ret.steps[n].args = DOMAIN arg.events[n].args
          /\ \A p \in DOMAIN arg.events[n].args :
               LET v == arg.events[n].args[p]
               IN IF Matches(v, n) = {}
                  THEN ret.steps[n].args[p] = Plain(v)
                  ELSE \E name \in Matches(v, n) : ret.steps[n].args[p] = Sole(name)

\* C29 witness: the second event's argument became a reference to the
\* first event's result slot and the first event's a reference to the
\* input field
C29_Witness ==
    /\ ret # <<>> /\ ret.at = "returned" /\ Len(arg.events) = 2
    /\ arg.events[2].type = "udf_call" /\ arg.events[2].args = [raw |-> PyStr("data")]
    /\ ret.steps[1].args = [url |-> Sole("url")]
    /\ ret.steps[2].args = [raw |-> Sole("result_s1")]

\* what Routine / Step validation and the step variants ask of the steps
\* compile_trace returns for the events it was given
WellFormed(steps, events) ==
    /\ Len(steps) \in {Len(events), Len(events) + 1}
    /\ \A n \in 1..Len(steps) : ValidStep(steps[n])
    /\ \A n \in 1..Len(events) :
          CASE events[n].type = "tool_call" ->
                 steps[n].type = "tool.call" /\ steps[n].save_as # ""
                 /\ DOMAIN steps[n].args = DOMAIN events[n].args
            [] events[n].type = "udf_call" ->
                 steps[n].type = "udf.call" /\ steps[n].function # "" /\ steps[n].save_as # ""
                 /\ DOMAIN steps[n].args = DOMAIN events[n].args
            [] OTHER ->
                 steps[n].type = "prompt.user" /\ steps[n].prompt # NoPrompt
                 /\ Len(steps[n].prompt.fields) = 1 /\ steps[n].prompt.fields[1].type = "confirm"
    /\ Len(steps) = Len(events) + 1 =>
          /\ steps[Len(steps)].type = "return"
          /\ steps[Len(steps)].value = Sole(steps[Len(events)].save_as)

Patched(j) ==
    /\ IsModifyArgs(fixLog[j]) /\ bodyRuns[j] = 2
    /\ fixLog[j].new_args # routine[j + 1].args

\* C31: the routine is immutable during execution: no step of a run or of a
\* resume, the retry with new_args included, changes the loaded steps or
\* their args; the patched step is the loaded step with new_args in place of
\* its args, and it is used for the one retry only: the step dispatched next
\* is the loaded one.
C31_RoutineImmutable ==
    /\ [][routine' = routine]_vars
    /\ []((pc = "apply" /\ IsModifyArgs(fix)) =>
            /\ patched_step.args = fix.new_args
            /\ [patched_step EXCEPT !.args = routine[i + 1].args] = routine[i + 1])
C31_Witness == \E j \in Indices : Patched(j) /\ pc = "returned" /\ result.status = "ok"

(***************************************************************************)
(* Pauses across a run and its resumes.                                    *)
(***************************************************************************)
\* the indices of the prompts that were paused at and resumed with answers
Resumed == {j \in Indices : answered[j] # Absent}
\* this step ends an invocation with needs_input
Pausing == pc \in {"loop", "apply"} /\ pc' = "returned" /\ result'.status = "needs_input"

\* C33: across a run and its resumes every prompt.user step pauses the run
\* at most once: a snapshot is saved only when the earlier one is consumed,
\* its step_index is above that of every snapshot resumed before, and no
\* step at or before a resumed prompt's index is dispatched again.
C33_PauseOnce ==
    /\ [][Pausing => /\ ~StoreHas(store, RunId)
                     /\ StoreLoad(store', RunId).step_index = i
                     /\ \A j \in Resumed : j < i]_vars
    /\ [][bodyRuns' # bodyRuns => \A j \in Resumed : j < i]_vars
    /\ [](\A j \in Indices :
            (j < Len(routine) /\ routine[j + 1].type = "prompt.user") => bodyRuns[j] <= 1)
C33_Witness ==
    /\ pc = "returned" /\ result.status = "needs_input"
    /\ Resumed # {} /\ StoreLoad(store, RunId).step_index = i /\ i > 0

(***************************************************************************)
(* RunResult.context.                                                      *)
(***************************************************************************)
\* C34: every RunResult produced by step execution carries in its context
\* field the execution context at termination, whether the status is
\* needs_input, ok through a return step, ok by running past the last step
\* (where the output is the full context too) or failed.
C34_ResultContext ==
    (pc = "returned" /\ FromSteps) =>
        /\ result.context = context
        /\ (result.status = "ok" /\ i >= Len(routine)) => result.output = OutContext(context)

(***************************************************************************)
(* A tool.call step of a routine with its declared tools (routine.tools)   *)
(* against a registry: _run_step on the step.  Routine.model_validate      *)
(* accepts a step whose tool is not among routine.tools, so such a routine *)
(* is loaded like any other.                                               *)
(***************************************************************************)
DeclaredNames == {"fetch", "other"}
ToolSteps ==
    { ToolCall(tool, [url |-> t], save_as, NoExpr) :
        tool \in DeclaredNames, t \in {Plain(PyStr("http://x")), Sole("r")}, save_as \in {"r", ""} }
Dispatches ==
    { [tools |-> declared, step |-> [st EXCEPT !.id = StepId(0)], c |-> c, reg |-> reg] :
        declared \in SUBSET DeclaredNames, st \in ToolSteps,
        c \in {EmptyCtx, Bind(EmptyCtx, "r", PyStr("http://x"))}, reg \in SUBSET ToolNames }

DispatchInit ==
    /\ EngineOff /\ context = EmptyCtx /\ store = {}
    /\ disk = <<>> /\ heap = <<>> /\ saved = <<>>
    /\ arg \in Dispatches
    /\ ret = <<>>

\* _run_step(step, context, pkg, tool_registry, ...) for a tool.call step of
\* a package whose routine declares arg.tools
run_tool_step ==
    /\ ret = <<>>
    /\ ret' = [outcome |-> _run_step(arg.step, arg.c, arg.reg),
               invoked |-> Invokes(arg.step, arg.c, arg.reg)]
    /\ UNCHANGED <<engine, context, store, disk, heap, saved, arg>>

SpecDispatch == DispatchInit /\ [][run_tool_step]_vars

\* C36: a tool.call step whose tool is undeclared in routine.tools or
\* unregistered in the tool registry ends in a step failure, and the tool
\* callable is not invoked in either case.
C36_UnknownTool ==
    (ret # <<>> /\ (arg.step.tool \notin arg.tools \/ arg.step.tool \notin arg.reg)) =>
        /\ ret.outcome.kind = "raise"
        /\ ~ret.invoked

(***************************************************************************)
(* Recovery after a pause.                                                 *)
(***************************************************************************)
\* C39: recovery does not survive a pause: a resumed invocation never calls
\* the recovery callback, so a step that raises after a resume ends the run
\* failed with that step's id and error, also when the run was started with
\* an auto_fix_fn.
C39_NoRecoveryAfterResume ==
    /\ [][(op = "resume" /\ pc = "recover") =>
              /\ pc' = "apply" /\ fix' = NoFix /\ fixCalls' = fixCalls]_vars
    /\ [][(op = "resume" /\ pc = "apply") =>
              /\ pc' = "returned"
              /\ result'.status = "failed"
              /\ result'.failure.step_id = routine[i + 1].id
              /\ result'.failure.error_type = exc.type]_vars
    /\ [](\A j \in Indices : (\E k \in Resumed : k < j) => fixCalls[j] = 0)
C39_Witness ==
    /\ op = "resume" /\ auto_fix_fn /\ pc = "returned" /\ FromSteps
    /\ result.status = "failed" /\ result.failure.error_type # "ConditionError"
    /\ bodyRuns[i] = 1 /\ fixCalls[i] = 0

(***************************************************************************)
(* The routine invariants on what compile_trace returns.                   *)
(***************************************************************************)
\* the names in routine.tools
Declared(tools) == {tools[q] : q \in 1..Len(tools)}

\* C35: every routine compile_trace produces satisfies the routine
\* invariants: the step ids are s1, s2, ... in event order and pairwise
\* distinct, each tool name is declared exactly once in routine.tools, and
\* every tool.call step names a tool declared in routine.tools.
C35_RoutineInvariants ==
    (ret # <<>> /\ ret.at = "returned") =>
        /\ \A n \in 1..Len(ret.steps) : ret.steps[n].id = StepId(n - 1)
        /\ \A n, q \in 1..Len(ret.steps) : n # q => ret.steps[n].id # ret.steps[q].id
        /\ \A n, q \in 1..Len(ret.tools) : n # q => ret.tools[n] # ret.tools[q]
        /\ \A n \in 1..Len(ret.steps) :
              ret.steps[n].type = "tool.call" => ret.steps[n].tool \in Declared(ret.tools)

(***************************************************************************)
(* The compiled routine run on the recorded input: the context starts as   *)
(* mission.input_summary, every tool and user function returns and every   *)
(* prompt is answered, so each step binds its save_as.  What is followed   *)
(* is which names a step's templates need and which the context holds.     *)
(***************************************************************************)
\* the variable names Jinja2 looks up for the template "{{ n }}": n itself
\* when it is an identifier; out-dir is the expression `out - dir`
Identifiers(n) == IF n = "out-dir" THEN {"out", "dir"} ELSE {n}
\* _SIMPLE_VAR_RE: the text between the braces is one \w+ word
IsWord(n) == Identifiers(n) = {n}

\* render_value on "{{ n }}" against a context with the keys `defined`:
\* the names whose lookup raises UndefinedError
Unresolved(t, defined) ==
    IF t.k # "sole" THEN {}
    ELSE IF IsWord(t.name) /\ t.name \in defined THEN {}
    ELSE {n \in Identifiers(t.name) : n \notin defined \cup JinjaGlobals}

\* _execute_steps over the compiled steps from step k on
RECURSIVE run_compiled_steps(_, _, _)
run_compiled_steps(steps, k, defined) ==
    IF k > Len(steps) THEN NoExc
    ELSE LET st == steps[k]
             templates == IF st.type = "return" THEN {st.value}
                          ELSE {st.args[p] : p \in DOMAIN st.args}
             missing == UNION {Unresolved(t, defined) : t \in templates}
         IN IF missing # {}
            THEN Exc("UndefinedError", "'" \o (CHOOSE n \in missing : TRUE) \o "' is undefined")
            ELSE IF st.type = "return" THEN NoExc
            ELSE run_compiled_steps(steps, k + 1, defined \cup {st.save_as})

\* run_routine(routine_dir, input_data = mission.input_summary) and the
\* resumes it takes, on the routine compile_trace returned
run_compiled ==
    /\ ret # <<>> /\ ret.at = "returned"
    /\ ret' = [ret EXCEPT !.at = "ran",
                          !.exc = run_compiled_steps(ret.steps, 1, DOMAIN arg.input_summary)]
    /\ UNCHANGED <<engine, context, store, disk, heap, saved, arg>>

CompileRunNext ==
    \/ compile_trace
    \/ compile_event
    \/ compile_return
    \/ run_compiled

SpecCompileRun == CompileInit /\ [][CompileRunNext]_vars

\* C37: every {{ name }} reference compile_trace emits is defined before
\* use: in an argument of step k it names a key of mission.input_summary or
\* the save_as of a step j < k, and the final return step references the
\* save_as of the step right before it; so the compiled routine run on the
\* recorded input, no step skipped, never fails with an undefined
\* reference.
C37_DefinedBeforeUse ==
    (ret # <<>> /\ ret.at \in {"returned", "ran"}) =>
        /\ \A k \in 1..Len(ret.steps) : \A p \in DOMAIN ret.steps[k].args :
              ret.steps[k].args[p].k = "sole" =>
                 ret.steps[k].args[p].name \in
                    DOMAIN arg.input_summary \cup {ret.steps[j].save_as : j \in 1..(k - 1)}
        /\ \A k \in 1..Len(ret.steps) :
              ret.steps[k].type = "return" =>
                 k > 1 /\ ret.steps[k].value = Sole(ret.steps[k - 1].save_as)
        /\ ret.at = "ran" => ret.exc.type # "UndefinedError"

(***************************************************************************)
(* Progress.  _execute_steps is a sequential loop: once an invocation is   *)
(* inside it, its next step is taken as long as every tool, user function  *)
(* and callback call returns.  When a run is started or resumed is up to   *)
(* the caller.                                                             *)
(***************************************************************************)
ExecuteSteps ==
    \/ GuardFalse \/ GuardError \/ StepNormal \/ StepPause \/ StepReturn \/ StepRaise
    \/ LoopEnd \/ CallAutoFix \/ NoAutoFix \/ RetryNormal \/ RetrySignal \/ RetryRaise
    \/ SkipStep \/ FailStep

SpecFair == Spec /\ WF_vars(ExecuteSteps)

\* the prompt.user steps of the routine
Prompts == {j \in Indices : j < Len(routine) /\ routine[j + 1].type = "prompt.user"}
\* an invocation has ended with a RunResult
Terminated == pc = "returned" /\ result.status \in {"ok", "failed", "needs_input"}

\* C38: every run or resume invocation terminates in one of ok, failed or
\* needs_input, and a run followed by resumes with valid answers reaches ok
\* or failed after at most as many resumes as the routine has prompt.user
\* steps.
C38_Termination ==
    /\ [](pc # "idle" => <>Terminated)
    /\ [](Cardinality(Resumed) <= Cardinality(Prompts))
    /\ []((Terminated /\ FromSteps /\ Cardinality(Resumed) = Cardinality(Prompts))
            => result.status \in {"ok", "failed"})

(***************************************************************************)
(* The run command (cli.py).  It calls run_routine without auto_fix_fn,    *)
(* resumes while the result is needs_input, then prints the result and     *)
(* comes to its end; `ret` is how the process exited.                      *)
(***************************************************************************)
CliInit == Init /\ auto_fix_fn = FALSE

\* `while result.status.value == "needs_input":` ... resume_run(...)
interactive_resume ==
    /\ ret = <<>> /\ pc = "returned" /\ result.status = "needs_input"
    /\ Resume

\* _output_result(result, ...) and the end of run(): nothing raises
\* typer.Exit, so the process exits with code 0
_output_result ==
    /\ ret = <<>> /\ pc = "returned" /\ result.status # "needs_input"
    /\ ret' = [exit_code |-> 0,
               stream |-> IF result.status = "ok" THEN "stdout" ELSE "stderr"]
    /\ UNCHANGED <<engine, context, store, disk, heap, saved, arg>>

\* an exception that leaves run_routine leaves run() too: traceback, code 1
uncaught ==
    /\ ret = <<>> /\ pc = "raised"
    /\ ret' = [exit_code |-> 1, stream |-> "stderr"]
    /\ UNCHANGED <<engine, context, store, disk, heap, saved, arg>>

CliNext ==
    \/ run_routine
    \/ GuardFalse
    \/ GuardError
    \/ StepNormal
    \/ StepPause
    \/ StepReturn
    \/ StepRaise
    \/ LoopEnd
    \/ NoAutoFix
    \/ FailStep
    \/ interactive_resume
    \/ _output_result
    \/ uncaught

SpecCli == CliInit /\ [][CliNext]_vars

\* C32: the run command exits with code 0 exactly when the final result,
\* after all interactive resumes, has status ok, and with a non-zero code
\* when it has status failed.
C32_ExitCode ==
    ret # <<>> => (ret.exit_code = 0 <=> (pc = "returned" /\ result.status = "ok"))

(***************************************************************************)
(* Two resume_run calls for one run id against one state store, their      *)
(* steps interleaved: load (engine.py:60), delete (:112), then             *)
(* _execute_steps (:114).  Both carry valid answers.  `ret` holds the kind *)
(* of store and the snapshot the run left, `arg` the two calls.            *)
(* FileStateStore.delete is `if path.exists(): path.unlink()`, two steps.  *)
(***************************************************************************)
Callers == {1, 2}
Other(q) == 3 - q
\* a call: where it is, the state it loaded, whether its delete has
\* returned, whether its load came after the other call's delete, and how
\* it ended
Caller(stage, state, removed, late, out) ==
    [stage |-> stage, state |-> state, removed |-> removed, late |-> late, out |-> out]

RaceInit ==
    /\ EngineOff /\ context = EmptyCtx /\ heap = <<>> /\ saved = <<>>
    /\ \E kind \in StoreKinds,
          snapshot \in {x \in StoreStates : x.run_id = RunId /\ x.step_index = 0} :
          /\ ret = [kind |-> kind, snapshot |-> snapshot]
          /\ store = IF kind = "memory" THEN StoreSave({}, snapshot) ELSE {}
          /\ disk = IF kind = "file"
                    THEN FileStateStore_save([f \in Paths |-> NoFile], snapshot)
                    ELSE [f \in Paths |-> NoFile]
    /\ arg = [q \in Callers |-> Caller("call", NoState, FALSE, FALSE, "none")]

\* state = state_store.load(run_id); `if state is None: return` StateNotFound
resume_load(q) ==
    /\ arg[q].stage = "call"
    /\ LET state == Load(ret.kind, store, disk, RunId).val
       IN arg' = [arg EXCEPT ![q] =
                    IF state = NoState
                    THEN Caller("done", NoState, FALSE, arg[Other(q)].removed, "StateNotFound")
                    ELSE Caller("loaded", state, FALSE, arg[Other(q)].removed, "none")]
    /\ UNCHANGED <<engine, context, store, disk, heap, saved, ret>>

\* state_store.delete(run_id) on an InMemoryStateStore: one pop
resume_delete(q) ==
    /\ arg[q].stage = "loaded" /\ ret.kind = "memory"
    /\ store' = StoreDelete(store, RunId)
    /\ arg' = [arg EXCEPT ![q].stage = "deleted", ![q].removed = TRUE]
    /\ UNCHANGED <<engine, context, disk, heap, saved, ret>>

\* FileStateStore.delete: `if path.exists():`
resume_exists(q) ==
    /\ arg[q].stage = "loaded" /\ ret.kind = "file"
    /\ arg' = IF disk[_path(RunId)] # NoFile
              THEN [arg EXCEPT ![q].stage = "unlink"]
              ELSE [arg EXCEPT ![q].stage = "deleted", ![q].removed = TRUE]
    /\ UNCHANGED <<engine, context, store, disk, heap, saved, ret>>

\* FileStateStore.delete: `path.unlink()`, FileNotFoundError when the file
\* is gone by now
resume_unlink(q) ==
    /\ arg[q].stage = "unlink"
    /\ IF disk[_path(RunId)] = NoFile
       THEN /\ arg' = [arg EXCEPT ![q].stage = "done", ![q].out = "FileNotFoundError"]
            /\ UNCHANGED disk
       ELSE /\ disk' = FileStateStore_delete(disk, RunId)
            /\ arg' = [arg EXCEPT ![q].stage = "deleted", ![q].removed = TRUE]
    /\ UNCHANGED <<engine, context, store, heap, saved, ret>>

\* return _execute_steps(..., start_index=state.step_index + 1, ...): the
\* steps behind the prompt run to a result, or (behind the first prompt)
\* they reach another prompt.user step and save the next snapshot.  What
\* the context holds plays no part here and is carried over as it is.
resume_execute(q) ==
    /\ arg[q].stage = "deleted"
    /\ \/ /\ arg' = [arg EXCEPT ![q].stage = "done", ![q].out = "executed"]
          /\ UNCHANGED <<store, disk>>
       \/ /\ arg[q].state.step_index = 0
          /\ LET next == RunStateIn(arg[q].state.routine_dir, RunId, start_index(arg[q].state),
                                    arg[q].state.context, StepId(start_index(arg[q].state)))
             IN IF ret.kind = "memory"
                THEN store' = StoreSave(store, next) /\ UNCHANGED disk
                ELSE disk' = FileStateStore_save(disk, next) /\ UNCHANGED store
          /\ arg' = [arg EXCEPT ![q].stage = "done", ![q].out = "needs_input"]
    /\ UNCHANGED <<engine, context, heap, saved, ret>>

RaceNext ==
    \/ \E q \in Callers : resume_load(q)
    \/ \E q \in Callers : resume_delete(q)
    \/ \E q \in Callers : resume_exists(q)
    \/ \E q \in Callers : resume_unlink(q)
    \/ \E q \in Callers : resume_execute(q)

SpecRace == RaceInit /\ [][RaceNext]_vars

\* the call got as far as _execute_steps
Executed(q) == arg[q].out \in {"executed", "needs_input"}

====
